---- MODULE Spec2Model ----
(***************************************************************************)
(* Model of the quantitative analysis engine of oyechr/quant-analysis:     *)
(*   - RiskMetrics          (src/src/analysis/risk.py)                     *)
(*   - ValuationAnalyzer    (src/src/analysis/valuation.py)                *)
(*   - FundamentalAnalyzer  (src/src/fundamental_analysis.py)              *)
(*                                                                         *)
(* Every engine method is a function of the analyzer's inputs.  The state  *)
(* holds the inputs of one analyzer instance, the last operation called on *)
(* it and what that call gave back to its caller (a value, or an exception *)
(* that escaped).  Floating point values are modelled exactly: a daily     *)
(* return is an integer number of 1/Scale units, a quotient is a pair      *)
(* <<numerator, denominator>>, NaN is a value of its own.                  *)
(***************************************************************************)
EXTENDS Integers, Sequences, FiniteSets, TLC

VARIABLES
    price_data,       \* RiskMetrics: the price table passed by the caller
    benchmark_data,   \* RiskMetrics: the benchmark table passed by the caller (or None)
    risk_free,        \* config.risk_free_rate, as the daily hurdle it converts to
    fetches,          \* number of DataFetcher.fetch_ticker calls made by the last call
    info,             \* ticker_info of the Valuation / Fundamental analyzer
    fundamentals,     \* the statement tables of the Valuation / Fundamental analyzer
    dividends_data,   \* ValuationAnalyzer: the dividend series (or None)
    earnings_data,    \* ValuationAnalyzer: earnings history and earnings dates
    now,              \* the day pd.Timestamp.now() falls on
    args,             \* the arguments of a helper that is called on its own
    op,               \* name of the last engine method called
    result            \* what the last call gave back

vars == <<price_data, benchmark_data, risk_free, fetches, info, fundamentals,
          dividends_data, earnings_data, now, args, op, result>>

----------------------------------------------------------------------------
(* Bounds of the model *)

\* longest price table (rows)
MaxRows == 4

\* close prices that occur in a table; Scale is their least common multiple,
\* so that every simple return (p2 - p1) / p1 is a whole number of 1/Scale
PriceLevels == {1, 2, 4}

BenchLevels == {1, 2}

Scale == CHOOSE s \in 1..64 :
            /\ \A p \in PriceLevels : s % p = 0
            /\ \A t \in 1..(s - 1) : \E p \in PriceLevels : t % p # 0

----------------------------------------------------------------------------
(* Python values *)

None == [k |-> "none"]
EmptyDict == [k |-> "empty"]
Raised(e) == [k |-> "raised", exc |-> e]
NaN == [k |-> "nan"]

Abs(x) == IF x < 0 THEN -x ELSE x
Sgn(x) == IF x < 0 THEN -1 ELSE IF x > 0 THEN 1 ELSE 0
Max2(a, b) == IF a >= b THEN a ELSE b
Min2(a, b) == IF a <= b THEN a ELSE b

RECURSIVE Gcd(_, _)
Gcd(a, b) == IF b = 0 THEN a ELSE Gcd(b, a % b)

\* a quotient n/d of two exact values (d # 0), in lowest terms, d > 0
Quot(n, d) ==
    LET g == Gcd(Abs(n), Abs(d))
        s == IF d < 0 THEN -1 ELSE 1
    IN  [k |-> "num", n |-> (s * n) \div g, d |-> Abs(d) \div g]

FZero == Quot(0, 1)

QLess(a, b) == a.n * b.d < b.n * a.d
QLeq(a, b) == a.n * b.d <= b.n * a.d

RECURSIVE SumSeq(_)
SumSeq(s) == IF s = <<>> THEN 0 ELSE Head(s) + SumSeq(Tail(s))

RECURSIVE SumSq(_)
SumSq(s) == IF s = <<>> THEN 0 ELSE Head(s) * Head(s) + SumSq(Tail(s))

\* n * sum(x^2) - sum(x)^2: the sample variance of s times n * (n - 1)
VarNum(s) == Len(s) * SumSq(s) - SumSeq(s) * SumSeq(s)

\* what `series.std() == 0` evaluates to: std (ddof = 1) of fewer than two
\* points is NaN, and NaN == 0 is False
StdIsZero(s) == Len(s) >= 2 /\ VarNum(s) = 0
StdIsNaN(s) == Len(s) < 2

----------------------------------------------------------------------------
(* Tables *)

\* a DataFrame with a date index: the row i carries the date first + i - 1
DataFrame(cols, first, rows) == [k |-> "df", cols |-> cols, first |-> first, rows |-> rows]

IsNone(x) == x.k = "none"
IsEmpty(df) == df.rows = <<>>

\* utils.report.validate_dataframe(df, required_columns=["Close"])
validate_dataframe(df, required_columns) ==
    IF IsNone(df) \/ df.k # "df" THEN FALSE
    ELSE IF IsEmpty(df) \/ Len(df.rows) < 1 THEN FALSE
    ELSE required_columns \subseteq df.cols

\* utils.financial.validate_price_data
validate_price_data(df) ==
    ~IsNone(df) /\ ~IsEmpty(df) /\ "Close" \in df.cols

\* utils.financial.to_float: a number (NaN included) stays what it is,
\* anything else becomes 0.0
NumberKinds == {"num", "nan", "ratio", "inf"}
to_float(v) == IF v.k \in NumberKinds THEN v ELSE FZero

\* price_data["Close"].pct_change().dropna(): the returns, each with its date,
\* in units of 1/Scale
pct_change(df) ==
    [i \in 1..(Len(df.rows) - 1) |->
        [date |-> df.first + i,
         r |-> ((df.rows[i + 1] - df.rows[i]) * Scale) \div df.rows[i]]]

Values(series) == [i \in 1..Len(series) |-> series[i].r]

\* the returns with the first row kept as a return of 0 (fillna(0) in place
\* of dropna())
FilledReturns(df) == <<[date |-> df.first, r |-> 0]>> \o pct_change(df)

\* utils.financial.calculate_daily_returns
calculate_daily_returns(df) == pct_change(df)

----------------------------------------------------------------------------
(* RiskMetrics (src/src/analysis/risk.py) *)

\* sign * sqrt(sqn / sqd): a quotient mean / std * sqrt(252)
Ratio(sign, sqn, sqd) ==
    IF sign = 0 THEN FZero
    ELSE LET g == Gcd(sqn, sqd)
         IN  [k |-> "ratio", sign |-> sign, sqn |-> sqn \div g, sqd |-> sqd \div g]

\* (num.mean() / den.std()) * np.sqrt(TRADING_DAYS_PER_YEAR) in float arithmetic:
\* NaN when the std is NaN (fewer than two points), the quotient otherwise.
\* The callers guard den.std() == 0.
TRADING_DAYS_PER_YEAR == 252

AnnualizedRatio(num, den) ==
    IF StdIsNaN(den) \/ Len(num) = 0 THEN NaN
    ELSE LET S == SumSeq(num)
             n == Len(num)
             m == Len(den)
         IN  Ratio(Sgn(S), TRADING_DAYS_PER_YEAR * S * S * m * (m - 1),
                   n * n * VarNum(den))

\* utils.financial.convert_annual_to_daily_rate: the state holds the daily
\* hurdle the configured annual rate converts to, in units of 1/Scale
convert_annual_to_daily_rate(rf) == rf

Excess(returns, daily_rf) == [i \in 1..Len(returns) |-> returns[i] - daily_rf]

Negative(s) == SelectSeq(s, LAMBDA x : x < 0)

\* the body of the try block of calculate_sharpe_ratio
SharpeBody(df, rf_rate) ==
    LET daily_returns == Values(pct_change(df))
        daily_rf == convert_annual_to_daily_rate(rf_rate)
        excess_returns == Excess(daily_returns, daily_rf)
    IN  IF daily_returns = <<>> \/ StdIsZero(daily_returns) THEN FZero
        ELSE to_float(AnnualizedRatio(excess_returns, excess_returns))

calculate_sharpe_ratio(df, rf_rate) ==
    IF ~validate_dataframe(df, {"Close"}) THEN FZero
    ELSE SharpeBody(df, rf_rate)

\* the body of the try block of calculate_sortino_ratio
SortinoBody(df, rf_rate) ==
    LET daily_returns == Values(pct_change(df))
        daily_rf == convert_annual_to_daily_rate(rf_rate)
        excess_returns == Excess(daily_returns, daily_rf)
        downside_returns == Negative(excess_returns)
    IN  IF daily_returns = <<>> THEN FZero
        ELSE IF Len(downside_returns) = 0 \/ StdIsZero(downside_returns) THEN FZero
        ELSE to_float(AnnualizedRatio(excess_returns, downside_returns))

calculate_sortino_ratio(df, rf_rate) ==
    IF ~validate_dataframe(df, {"Close"}) THEN FZero
    ELSE SortinoBody(df, rf_rate)

\* pd.DataFrame({"stock": ..., "benchmark": ...}).dropna(): the dates both have
Aligned(stock_returns, benchmark_returns) ==
    LET bdates == {benchmark_returns[j].date : j \in 1..Len(benchmark_returns)}
        bench(d) == (CHOOSE j \in 1..Len(benchmark_returns) :
                        benchmark_returns[j].date = d)
        common == SelectSeq(stock_returns, LAMBDA x : x.date \in bdates)
    IN  [i \in 1..Len(common) |->
            [date |-> common[i].date, stock |-> common[i].r,
             benchmark |-> benchmark_returns[bench(common[i].date)].r]]

\* what the data provider answers to DataFetcher.fetch_ticker: it raises
\* (ValueError, ConnectionError, RuntimeError) or returns a non-empty table
FetchedTables == {DataFrame({"Close"}, 1, <<1, 2, 1, 2>>)}
FetchOutcomes == {[o |-> "raise"]} \cup {[o |-> "data", df |-> t] : t \in FetchedTables}

\* `from .data_fetcher import DataFetcher` inside package src.analysis names the
\* module src/analysis/data_fetcher.py; the fetcher lives in src/data_fetcher.py,
\* so the import raises ImportError where that module does not exist
ImportOutcomes == {[o |-> "import_error"]} \cup FetchOutcomes

Missing(df) == IsNone(df) \/ IsEmpty(df)

\* calculate_information_ratio; net is what the import and the fetch do if they
\* are reached.  Gives the value returned and the number of fetch_ticker calls.
calculate_information_ratio(df, benchmark, net) ==
    IF IsNone(df) \/ IsEmpty(df) \/ "Close" \notin df.cols
    THEN [val |-> FZero, fetched |-> 0]
    ELSE
    LET fetching == Missing(benchmark)
        fetched == IF fetching /\ net.o # "import_error" THEN 1 ELSE 0
        bm == IF ~fetching THEN benchmark
              ELSE IF net.o = "data" THEN net.df ELSE None
        stock_returns == pct_change(df)
        benchmark_returns == pct_change(bm)
        aligned == Aligned(stock_returns, benchmark_returns)
        active_returns == [i \in 1..Len(aligned) |->
                              aligned[i].stock - aligned[i].benchmark]
    IN  IF fetching /\ net.o \in {"import_error", "raise"}
        THEN [val |-> FZero, fetched |-> fetched]      \* except Exception
        ELSE IF Missing(bm) THEN [val |-> FZero, fetched |-> fetched]
        ELSE IF "Close" \notin bm.cols
        THEN [val |-> FZero, fetched |-> fetched]      \* KeyError, except Exception
        ELSE IF Len(aligned) < 2 THEN [val |-> FZero, fetched |-> fetched]
        ELSE IF StdIsZero(active_returns) THEN [val |-> FZero, fetched |-> fetched]
        ELSE [val |-> to_float(AnnualizedRatio(active_returns, active_returns)),
              fetched |-> fetched]

\* sum of products, for the covariance
RECURSIVE SumProd(_, _)
SumProd(a, b) ==
    IF a = <<>> THEN 0 ELSE Head(a) * Head(b) + SumProd(Tail(a), Tail(b))

\* calculate_beta_alpha; net is what the fetch does if it is reached
calculate_beta_alpha(df, benchmark, rf_rate, net) ==
    IF ~validate_dataframe(df, {"Close"}) THEN [val |-> EmptyDict, fetched |-> 0]
    ELSE
    LET fetching == Missing(benchmark)
        fetched == IF fetching THEN 1 ELSE 0
        bm == IF ~fetching THEN benchmark
              ELSE IF net.o = "data" THEN net.df ELSE None
        aligned == Aligned(pct_change(df), pct_change(bm))
        n == Len(aligned)
        st == [i \in 1..n |-> aligned[i].stock]
        be == [i \in 1..n |-> aligned[i].benchmark]
        \* cov and var share the factor 1 / (n * (n - 1) * Scale^2)
        covariance == n * SumProd(st, be) - SumSeq(st) * SumSeq(be)
        benchmark_variance == VarNum(be)
        beta == IF benchmark_variance # 0 THEN Quot(covariance, benchmark_variance)
                ELSE FZero
        \* Pearson correlation: NaN when either series has zero variance
        correlation == IF VarNum(st) = 0 \/ benchmark_variance = 0 THEN NaN
                       ELSE Ratio(Sgn(covariance), covariance * covariance,
                                  VarNum(st) * benchmark_variance)
    IN  IF fetching /\ net.o = "raise"
        THEN [val |-> EmptyDict, fetched |-> fetched]     \* except Exception
        ELSE IF Missing(bm) THEN [val |-> EmptyDict, fetched |-> fetched]
        ELSE IF "Close" \notin bm.cols
        THEN [val |-> EmptyDict, fetched |-> fetched]     \* KeyError
        ELSE IF n < 2 THEN [val |-> EmptyDict, fetched |-> fetched]
        ELSE [val |-> [k |-> "dict", beta |-> beta, correlation |-> correlation,
                       alpha_sum |-> <<SumSeq(st), SumSeq(be), rf_rate>>],
              fetched |-> fetched]

\* exact quotient arithmetic
\* (sums go over the least common denominator and products cancel crosswise,
\* so that no intermediate value is larger than it has to be)
QAdd(a, b) ==
    LET g == Gcd(a.d, b.d)
    IN  Quot(a.n * (b.d \div g) + b.n * (a.d \div g), (a.d \div g) * b.d)
QNeg(a) == [a EXCEPT !.n = -a.n]
QSub(a, b) == QAdd(a, QNeg(b))
QMul(a, b) ==
    LET g1 == Gcd(Abs(a.n), b.d)
        g2 == Gcd(Abs(b.n), a.d)
    IN  Quot((a.n \div g1) * (b.n \div g2), (a.d \div g2) * (b.d \div g1))

RECURSIVE SeqMin(_)
SeqMin(s) == IF Len(s) = 1 THEN s[1] ELSE Min2(Head(s), SeqMin(Tail(s)))

RECURSIVE SeqMax(_)
SeqMax(s) == IF Len(s) = 1 THEN s[1] ELSE Max2(Head(s), SeqMax(Tail(s)))

Count(s, P(_)) == Len(SelectSeq(s, P))

\* (1 + daily_returns).prod(), multiplied out return by return
RECURSIVE ProdOnePlus(_)
ProdOnePlus(rs) ==
    IF rs = <<>> THEN Quot(1, 1)
    ELSE QMul(Quot(Scale + Head(rs), Scale), ProdOnePlus(Tail(rs)))

\* series.std() of values in units of 1/Scale: NaN for fewer than two points
Std(s) ==
    IF StdIsNaN(s) THEN NaN
    ELSE Ratio(Sgn(VarNum(s)), VarNum(s), Len(s) * (Len(s) - 1) * Scale * Scale)

Mean(s) == Quot(SumSeq(s), Len(s) * Scale)

\* calculate_returns
calculate_returns(df) ==
    IF ~validate_price_data(df) THEN EmptyDict
    ELSE
    LET daily_returns == Values(calculate_daily_returns(df))
        cumulative_return == QSub(to_float(ProdOnePlus(daily_returns)), Quot(1, 1))
        trading_days == Len(daily_returns)
    IN  IF daily_returns = <<>> THEN EmptyDict
        ELSE [k |-> "dict",
              daily_mean |-> to_float(Mean(daily_returns)),
              daily_std |-> to_float(Std(daily_returns)),
              daily_min |-> Quot(SeqMin(daily_returns), Scale),
              daily_max |-> Quot(SeqMax(daily_returns), Scale),
              cumulative_return |-> cumulative_return,
              \* (1 + cumulative_return) ** (1 / years) - 1, years = trading_days / 252
              annualized_return |-> [k |-> "pow", base |-> QAdd(Quot(1, 1), cumulative_return),
                                     days |-> trading_days],
              total_trading_days |-> trading_days,
              positive_days |-> Count(daily_returns, LAMBDA x : x > 0),
              negative_days |-> Count(daily_returns, LAMBDA x : x < 0),
              win_rate |-> Quot(Count(daily_returns, LAMBDA x : x > 0), trading_days)]

\* calculate_volatility (window = None)
calculate_volatility(df) ==
    IF ~validate_dataframe(df, {"Close"}) THEN EmptyDict
    ELSE
    LET daily_returns == Values(pct_change(df))
        downside_returns == Negative(daily_returns)
    IN  IF daily_returns = <<>> THEN EmptyDict
        ELSE [k |-> "dict",
              daily_volatility |-> Std(daily_returns),
              downside_deviation |-> IF Len(downside_returns) > 0
                                     THEN to_float(Std(downside_returns)) ELSE FZero]

\* the maximum of the whole series in every row
OverallMax(rows) == [i \in 1..Len(rows) |-> SeqMax(rows)]

\* prices.expanding().max()
RunningMax(rows) == [i \in 1..Len(rows) |-> SeqMax(SubSeq(rows, 1, i))]

\* index of the first minimum of a sequence of quotients (Series.idxmin)
IdxMin(qs) ==
    CHOOSE i \in 1..Len(qs) :
        /\ \A j \in 1..Len(qs) : QLeq(qs[i], qs[j])
        /\ \A j \in 1..(i - 1) : QLess(qs[i], qs[j])

\* the loop that counts the trailing rows below the running peak
RECURSIVE DaysSincePeak(_, _, _)
\* the variant that stops only at a close above the running peak
DaysSinceNewPeak(prices, running_max, i) ==
    LET above == {j \in 1..i : prices[j] > running_max[j]}
    IN  IF above = {} THEN i
        ELSE i - (CHOOSE j \in above : \A l \in above : l <= j)

DaysSincePeak(prices, running_max, i) ==
    IF i < 1 THEN 0
    ELSE IF prices[i] >= running_max[i] THEN 0
    ELSE 1 + DaysSincePeak(prices, running_max, i - 1)

\* calculate_drawdown
calculate_drawdown(df) ==
    IF ~validate_dataframe(df, {"Close"}) THEN EmptyDict
    ELSE
    LET prices == df.rows
        running_max == RunningMax(prices)
        drawdown == [i \in 1..Len(prices) |->
                        Quot(prices[i] - running_max[i], running_max[i])]
        max_dd_idx == IdxMin(drawdown)
        current_drawdown == drawdown[Len(prices)]
        peak_before_dd == running_max[max_dd_idx]
        recovered == {j \in max_dd_idx..Len(prices) : prices[j] >= peak_before_dd}
        recovery_idx == CHOOSE j \in recovered : \A l \in recovered : j <= l
    IN  [k |-> "dict",
         max_drawdown |-> drawdown[max_dd_idx],
         max_drawdown_date |-> df.first + max_dd_idx - 1,
         current_drawdown |-> current_drawdown,
         days_since_peak |-> DaysSincePeak(prices, running_max, Len(prices)),
         recovery_days |-> IF recovered = {} THEN None
                           ELSE [k |-> "int", v |-> recovery_idx - max_dd_idx],
         \* current_drawdown >= -0.001
         is_recovered |-> current_drawdown.n * 1000 >= -current_drawdown.d]

\* np.percentile(a, q * 100), linear interpolation, q = qn / qd
Percentile(a, qn, qd) ==
    LET sorted == SortSeq(a, LAMBDA x, y : x < y)
        n == Len(a)
        lo == (qn * (n - 1)) \div qd
        rem == (qn * (n - 1)) % qd
    IN  IF rem = 0 THEN Quot(sorted[lo + 1], Scale)
        ELSE Quot(sorted[lo + 1] * qd + (sorted[lo + 2] - sorted[lo + 1]) * rem,
                  qd * Scale)

\* np.random.standard_normal(10000): the percentile of a fresh random sample,
\* a different number on every call; the model draws its index
ZSamples == {1, 2}

\* calculate_var; conf = <<1 - confidence_level as qn, qd>>, z the sampled z-score
calculate_var(df, conf, z) ==
    IF IsNone(df) \/ IsEmpty(df) \/ "Close" \notin df.cols THEN EmptyDict
    ELSE
    LET daily_returns == Values(pct_change(df))
        var == Percentile(daily_returns, conf[1], conf[2])
        returns_below_var == SelectSeq(daily_returns,
                                 LAMBDA x : QLeq(Quot(x, Scale), var))
    IN  IF daily_returns = <<>> THEN EmptyDict
        ELSE [k |-> "dict",
              confidence_level |-> conf,
              var_historical |-> var,
              cvar_historical |-> IF Len(returns_below_var) > 0
                                  THEN Mean(returns_below_var) ELSE var,
              \* mean_return - z_score * std_return
              var_parametric |-> IF StdIsNaN(daily_returns) THEN NaN
                                 ELSE IF StdIsZero(daily_returns) THEN Mean(daily_returns)
                                 ELSE [k |-> "parametric", mean |-> Mean(daily_returns),
                                       z |-> z, std |-> Std(daily_returns)],
              worst_day |-> Quot(SeqMin(daily_returns), Scale)]

\* dict.get(key, default) on a result dict
Get(d, key, default) == IF d.k = "dict" /\ key \in DOMAIN d THEN d[key] ELSE default

\* calculate_calmar_ratio
calculate_calmar_ratio(df) ==
    IF IsNone(df) \/ IsEmpty(df) \/ "Close" \notin df.cols THEN FZero
    ELSE
    LET returns_metrics == calculate_returns(df)
        annualized_return == Get(returns_metrics, "annualized_return", FZero)
        drawdown_metrics == calculate_drawdown(df)
        max_drawdown == Get(drawdown_metrics, "max_drawdown", FZero)
    IN  IF max_drawdown.n = 0 THEN FZero
        ELSE [k |-> "calmar", annualized_return |-> annualized_return,
              max_drawdown |-> Quot(Abs(max_drawdown.n), max_drawdown.d)]

\* mean / std * sqrt(252) for one rolling window, as float division gives it:
\* NaN when the std is NaN or both are 0, +-inf when only the std is 0
WindowRatio(win, den) ==
    IF StdIsNaN(den) THEN NaN
    ELSE IF VarNum(den) = 0
    THEN (IF SumSeq(win) = 0 THEN NaN ELSE [k |-> "inf", sign |-> Sgn(SumSeq(win))])
    ELSE AnnualizedRatio(win, den)

\* the rolling series of one window size, NaN dropped
RollingSeries(excess, window, Den(_)) ==
    LET n == Len(excess)
        all == [i \in 1..(n - window + 1) |->
                   LET win == SubSeq(excess, i, i + window - 1)
                   IN  WindowRatio(win, Den(win))]
    IN  SelectSeq(all, LAMBDA v : v.k # "nan")

\* the statistics reported for a rolling series
RollingStats(series) ==
    [current |-> to_float(series[Len(series)]), series |-> series]

\* calculate_rolling_ratios
calculate_rolling_ratios(df, windows, rf_rate) ==
    IF IsNone(df) \/ IsEmpty(df) \/ "Close" \notin df.cols THEN EmptyDict
    ELSE
    LET daily_returns == Values(pct_change(df))
        daily_rf == convert_annual_to_daily_rate(rf_rate)
        excess_returns == Excess(daily_returns, daily_rf)
        usable == {i \in 1..Len(windows) : Len(daily_returns) >= windows[i]
                                           /\ windows[i] >= 1}
        sharpe(w) == RollingSeries(excess_returns, w, LAMBDA win : win)
        sortino(w) == RollingSeries(excess_returns, w, LAMBDA win : Negative(win))
        keys == {<<"sharpe", windows[i]>> : i \in {j \in usable : sharpe(windows[j]) # <<>>}}
                \cup
                {<<"sortino", windows[i]>> : i \in {j \in usable : sortino(windows[j]) # <<>>}}
    IN  IF windows = <<>> THEN EmptyDict              \* max([]) raises ValueError
        ELSE IF Len(daily_returns) < SeqMax(windows) THEN EmptyDict
        ELSE IF keys = {} THEN EmptyDict
        ELSE [k |-> "dict",
              items |-> [key \in keys |->
                            IF key[1] = "sharpe" THEN RollingStats(sharpe(key[2]))
                            ELSE RollingStats(sortino(key[2]))]]

DefaultWindows == <<30, 60, 90>>
Conf95 == <<5, 100>>
Conf99 == <<1, 100>>

\* calculate_all_metrics; net_ir and net_ba are what the import / the fetch do
\* if calculate_information_ratio and calculate_beta_alpha reach them, z95 and
\* z99 the z-scores the two calculate_var calls sample
calculate_all_metrics(df, benchmark, rf_rate, net_ir, net_ba, z95, z99) ==
    IF IsNone(df) \/ IsEmpty(df) THEN [val |-> EmptyDict, fetched |-> 0]
    ELSE
    LET ir == calculate_information_ratio(df, benchmark, net_ir)
        ba == calculate_beta_alpha(df, benchmark, rf_rate, net_ba)
    IN  [val |-> [k |-> "dict",
                  returns |-> calculate_returns(df),
                  volatility |-> calculate_volatility(df),
                  sharpe_ratio |-> calculate_sharpe_ratio(df, rf_rate),
                  sortino_ratio |-> calculate_sortino_ratio(df, rf_rate),
                  information_ratio |-> ir.val,
                  calmar_ratio |-> calculate_calmar_ratio(df),
                  drawdown |-> calculate_drawdown(df),
                  market_risk |-> ba.val,
                  var_95 |-> calculate_var(df, Conf95, z95),
                  var_99 |-> calculate_var(df, Conf99, z99),
                  rolling_ratios |-> calculate_rolling_ratios(df, DefaultWindows, rf_rate)],
         fetched |-> ir.fetched + ba.fetched]

----------------------------------------------------------------------------
(* The risk engine as a state machine: one RiskMetrics instance, the tables *)
(* its caller holds, and the calls the caller makes                         *)

SeqsUpTo(S, n) == UNION {[1..m -> S] : m \in 1..n}

\* the price tables a caller passes: None, an empty table, a table without a
\* Close column, and every series of closes up to MaxRows rows
PriceTables ==
    {None, DataFrame({"Close"}, 1, <<>>), DataFrame({"Open"}, 1, <<1, 2>>)}
    \cup {DataFrame({"Close"}, 1, s) : s \in SeqsUpTo(PriceLevels, MaxRows)}

\* the benchmark tables: absent, empty, without Close, or a series of
\* MaxRows - 1 closes that starts on the stock's first date or one day later
BenchTables ==
    {None, DataFrame({"Close"}, 1, <<>>), DataFrame({"Open"}, 1, <<1, 2>>)}
    \cup {DataFrame({"Close"}, f, s) : f \in {1, 2}, s \in [1..(MaxRows - 1) -> BenchLevels]}

\* daily hurdles of the configured risk-free rate, in units of 1/Scale
RiskFreeLevels == {0, 1}

NoInfo == [k |-> "none"]

InitRisk ==
    /\ price_data \in PriceTables
    /\ benchmark_data \in BenchTables
    /\ risk_free \in RiskFreeLevels
    /\ fetches = 0
    /\ info = NoInfo
    /\ fundamentals = NoInfo
    /\ dividends_data = None
    /\ earnings_data = NoInfo
    /\ now = 0
    /\ args = None
    /\ op = "init"
    /\ result = None

Inputs == <<price_data, benchmark_data, risk_free, info, fundamentals, dividends_data,
            earnings_data, now, args>>

\* a call is synchronous: the caller makes it on an idle analyzer and gets the
\* value back (or the exception that escaped) before it makes the next one
Idle == op = "init"

Return(name, val, nfetch) ==
    /\ Idle
    /\ op' = name
    /\ result' = val
    /\ fetches' = nfetch
    /\ UNCHANGED Inputs

\* the caller has taken the result; the analyzer and its inputs are as before
Consume ==
    /\ ~Idle
    /\ op' = "init"
    /\ result' = None
    /\ fetches' = 0
    /\ UNCHANGED Inputs

\* the outcomes of the import / fetch that a call can meet: they are only
\* reached when no benchmark was passed
Reachable(benchmark, outcomes) ==
    IF Missing(benchmark) THEN outcomes ELSE {[o |-> "unused"]}

SharpeRatio ==
    Return("calculate_sharpe_ratio", calculate_sharpe_ratio(price_data, risk_free), 0)

SortinoRatio ==
    Return("calculate_sortino_ratio", calculate_sortino_ratio(price_data, risk_free), 0)

InformationRatio ==
    \E net \in Reachable(benchmark_data, ImportOutcomes) :
        LET r == calculate_information_ratio(price_data, benchmark_data, net)
        IN  Return("calculate_information_ratio", r.val, r.fetched)

BetaAlpha ==
    \E net \in Reachable(benchmark_data, FetchOutcomes) :
        LET r == calculate_beta_alpha(price_data, benchmark_data, risk_free, net)
        IN  Return("calculate_beta_alpha", r.val, r.fetched)

Drawdown ==
    Return("calculate_drawdown", calculate_drawdown(price_data), 0)

ValueAtRisk ==
    \E conf \in {Conf95, Conf99}, z \in ZSamples :
        Return("calculate_var", calculate_var(price_data, conf, z), 0)

AllMetrics ==
    \E net_ir \in Reachable(benchmark_data, ImportOutcomes),
       net_ba \in Reachable(benchmark_data, FetchOutcomes),
       z95 \in ZSamples, z99 \in ZSamples :
        LET r == calculate_all_metrics(price_data, benchmark_data, risk_free,
                                       net_ir, net_ba, z95, z99)
        IN  Return("calculate_all_metrics", r.val, r.fetched)

NextRisk ==
    \/ SharpeRatio
    \/ SortinoRatio
    \/ InformationRatio
    \/ BetaAlpha
    \/ Drawdown
    \/ ValueAtRisk
    \/ AllMetrics
    \/ Consume

Spec == InitRisk /\ [][NextRisk]_vars

----------------------------------------------------------------------------
(* Claims about the risk engine *)

\* the series whose std is the denominator of each ratio, for the inputs held
SharpeDenominator ==
    IF validate_dataframe(price_data, {"Close"}) THEN Values(pct_change(price_data))
    ELSE <<>>

SortinoDenominator == Negative(Excess(SharpeDenominator, risk_free))

InformationDenominator ==
    IF validate_dataframe(price_data, {"Close"}) /\ ~Missing(benchmark_data)
       /\ "Close" \in benchmark_data.cols
    THEN LET a == Aligned(pct_change(price_data), pct_change(benchmark_data))
         IN  [i \in 1..Len(a) |-> a[i].stock - a[i].benchmark]
    ELSE <<>>

\* empty, fewer than 2 points, or zero variance
Degenerate(s) == Len(s) < 2 \/ VarNum(s) = 0

\* C1: Sharpe, Sortino and Information Ratio each return exactly 0.0 whenever
\* the series forming their denominator is empty, has fewer than 2 points or
\* has zero variance.
C1_RatiosZeroOnDegenerateDenominator ==
    /\ (op = "calculate_sharpe_ratio" /\ Degenerate(SharpeDenominator)) => result = FZero
    /\ (op = "calculate_sortino_ratio" /\ Degenerate(SortinoDenominator)) => result = FZero
    /\ (op = "calculate_information_ratio" /\ ~Missing(benchmark_data)
          /\ Degenerate(InformationDenominator)) => result = FZero

AllMetricsKeys ==
    {"returns", "volatility", "sharpe_ratio", "sortino_ratio", "information_ratio",
     "calmar_ratio", "drawdown", "market_risk", "var_95", "var_99", "rolling_ratios"}

Keys(d) == DOMAIN d \ {"k"}

\* C2: for every non-empty price table calculate_all_metrics returns a dict
\* with exactly the eleven keys, and a sub-metric whose preconditions fail
\* appears as 0.0 (a ratio) or {} (a grouped dict).
C2_AllMetricsDegradesToZeroOrEmpty ==
    (op = "calculate_all_metrics" /\ ~Missing(price_data)) =>
        /\ result.k = "dict"
        /\ Keys(result) = AllMetricsKeys
        /\ Degenerate(SharpeDenominator) => result.sharpe_ratio = FZero
        /\ Degenerate(SortinoDenominator) => result.sortino_ratio = FZero
        /\ (~Missing(benchmark_data) /\ Degenerate(InformationDenominator))
              => result.information_ratio = FZero
        /\ SharpeDenominator = <<>> =>
              /\ result.returns = EmptyDict
              /\ result.volatility = EmptyDict
              /\ result.var_95 = EmptyDict
              /\ result.var_99 = EmptyDict
              /\ result.calmar_ratio = FZero

\* C3: with no benchmark series supplied (None or empty) the risk engine never
\* invokes the data fetcher: calculate_beta_alpha returns {}, the information
\* ratio is 0.0 and no fetch happens in any calculate_all_metrics.
C3_NoFetchWithoutBenchmark ==
    (Missing(benchmark_data)
       /\ op \in {"calculate_beta_alpha", "calculate_information_ratio",
                  "calculate_all_metrics"}) =>
        /\ fetches = 0
        /\ op = "calculate_beta_alpha" => result = EmptyDict
        /\ op = "calculate_information_ratio" => result = FZero

----------------------------------------------------------------------------
(* Values shared by ValuationAnalyzer and FundamentalAnalyzer *)

Str(s) == [k |-> "str", s |-> s]
Bool(b) == [k |-> "bool", b |-> b]
Num(n) == Quot(n, 1)

\* a complex number: what pow() gives for a negative base and a fractional
\* exponent
Complex == [k |-> "complex"]

IsNum(v) == v.k = "num"
QPos(v) == IsNum(v) /\ v.n > 0
QZero(v) == IsNum(v) /\ v.n = 0

\* Python truthiness of None and of a float
Truthy(v) ==
    CASE v.k = "none" -> FALSE
      [] v.k = "num" -> v.n # 0
      [] OTHER -> TRUE

\* a / b on Python floats: ZeroDivisionError when b is 0.0
QDiv(a, b) ==
    IF b.n = 0 THEN Raised("float division by zero")
    ELSE QMul(a, Quot(b.d, b.n))

IsRaised(v) == v.k = "raised"

RECURSIVE QPow(_, _)
QPow(q, e) == IF e = 0 THEN Num(1) ELSE QMul(q, QPow(q, e - 1))

RECURSIVE IntPow(_, _)
IntPow(b, e) == IF e = 0 THEN 1 ELSE b * IntPow(b, e - 1)

\* the whole number whose e-th power is x (x >= 0), or -1 if there is none
RECURSIVE FindRoot(_, _, _)
FindRoot(x, e, r) ==
    IF IntPow(r, e) >= x THEN (IF IntPow(r, e) = x THEN r ELSE -1)
    ELSE FindRoot(x, e, r + 1)

IRoot(x, e) == FindRoot(x, e, 0)
HasRoot(x, e) == IRoot(x, e) >= 0

\* pow(q, 1 / e) for q >= 0; the inputs of the model are chosen so that the
\* root is a quotient again
HasQRoot(q, e) == HasRoot(q.n, e) /\ HasRoot(q.d, e)
QRoot(q, e) ==
    IF HasQRoot(q, e) THEN Quot(IRoot(q.n, e), IRoot(q.d, e))
    ELSE [k |-> "surd", base |-> q, deg |-> e]

\* utils.financial.calculate_cagr: 0.0 when the calculation is invalid
calculate_cagr(ending_value, beginning_value, num_periods) ==
    IF IsNone(ending_value) \/ IsNone(beginning_value)
       \/ QLeq(beginning_value, FZero) \/ num_periods <= 0
    THEN FZero
    ELSE LET q == QDiv(ending_value, beginning_value)
             root == IF num_periods = 1 THEN q
                     ELSE IF q.n < 0 THEN Complex
                     ELSE QRoot(q, num_periods)
         IN  IF IsNum(root) THEN QMul(QSub(root, Num(1)), Num(100)) ELSE root

\* ValuationAnalyzer._calculate_cagr: a result of 0.0 is reported as None
_calculate_cagr(ending_value, beginning_value, num_periods) ==
    LET r == calculate_cagr(ending_value, beginning_value, num_periods)
    IN  IF r = FZero THEN None ELSE r

\* dict.get(key): None for a key the dict does not have
DictGet(d, key) == IF key \in DOMAIN d THEN d[key] ELSE None

\* re.sub(r"(?<!^)(?=[A-Z])", "_", key).lower() on the keys that are looked up
SnakeCase ==
    [currentPrice |-> "current_price", beta |-> "beta", totalCash |-> "total_cash",
     totalDebt |-> "total_debt", sharesOutstanding |-> "shares_outstanding",
     impliedSharesOutstanding |-> "implied_shares_outstanding",
     marketCap |-> "market_cap", dividendYield |-> "dividend_yield",
     payoutRatio |-> "payout_ratio", forwardEps |-> "forward_eps"]

\* ValuationAnalyzer._get_info_value: the camelCase key, then the snake_case
\* key; a value that is missing, zero or negative is None
_get_info_value(inf, key) ==
    LET value == to_float(DictGet(inf, key))
        snake == to_float(DictGet(inf, SnakeCase[key]))
    IN  IF Truthy(value) /\ QPos(value) THEN value
        ELSE IF Truthy(snake) /\ QPos(snake) THEN snake
        ELSE None

\* a financial statement: line items (rows) by period (columns, most recent
\* first); a cell is a number or NaN
Statement(ncols, rows) == [k |-> "stmt", ncols |-> ncols, rows |-> rows]
StmtEmpty(df) == df.ncols = 0 \/ DOMAIN df.rows = {}

\* utils.dataframe_utils.safe_get_dataframe_value
safe_get_dataframe_value(df, row_name, col_index) ==
    IF IsNone(df) \/ StmtEmpty(df) THEN None
    ELSE IF row_name \notin DOMAIN df.rows THEN None
    ELSE IF col_index + 1 > df.ncols THEN None
    ELSE LET value == df.rows[row_name][col_index + 1]
         IN  IF value.k = "nan" \/ IsNone(value) THEN None ELSE value

_get_value(df, row_name, col_index) == safe_get_dataframe_value(df, row_name, col_index)

\* a or b on Python values
Or(a, b) == IF Truthy(a) THEN a ELSE b

\* ValuationAnalyzer.__init__: the current price, from the info or else from
\* the last close of the price table
current_price(inf, prices) ==
    LET p == to_float(DictGet(inf, "currentPrice"))
    IN  IF QZero(p) /\ ~IsNone(prices) /\ ~IsEmpty(prices)
        THEN Num(prices.rows[Len(prices.rows)])
        ELSE p

----------------------------------------------------------------------------
(* ValuationAnalyzer (src/src/analysis/valuation.py): DCF *)

Dict == [k |-> "dict"]

\* d[key] = value on a dict
Put(d, key, value) == (key :> value) @@ d

currency(inf) == IF "currency" \in DOMAIN inf THEN inf["currency"] ELSE Str("USD")

\* _estimate_wacc: cost of equity by CAPM, 4.0 + beta * 8.0, with the market
\* beta 1.0 when the info has none
_estimate_wacc(inf) ==
    LET b == _get_info_value(inf, "beta")
        beta == IF IsNone(b) \/ QLeq(b, FZero) THEN Num(1) ELSE b
    IN  QAdd(Num(4), QMul(beta, Num(8)))

NotNone(v) == ~IsNone(v)

\* _estimate_fcf_growth_rate: CAGR over the Free Cash Flow cells of the three
\* most recent periods that are not missing
_estimate_fcf_growth_rate(funds) ==
    LET cash_flow_a == DictGet(funds, "cash_flow_annual")
    IN  IF IsNone(cash_flow_a) \/ StmtEmpty(cash_flow_a) THEN None
        ELSE LET cells == [i \in 1..3 |-> _get_value(cash_flow_a, "Free Cash Flow", i - 1)]
                 fcf_values == SelectSeq(cells, NotNone)
                 n == Len(fcf_values)
             IN  IF n >= 2 /\ QPos(fcf_values[n])
                 THEN _calculate_cagr(fcf_values[1], fcf_values[n], n - 1)
                 ELSE None

\* sum(cf["present_value"] for cf in projected_fcf), year 1 .. years
RECURSIVE PvProjected(_, _, _, _)
PvProjected(fcf_current, G, W, years) ==
    IF years = 0 THEN FZero
    ELSE QAdd(PvProjected(fcf_current, G, W, years - 1),
              QDiv(QMul(fcf_current, QPow(G, years)), QPow(W, years)))

\* the result dict calculate_dcf_valuation starts from
DcfResult(inf, prices, terminal_growth_rate, projection_years) ==
    [k |-> "dict",
     intrinsic_value_per_share |-> None,
     current_price |-> current_price(inf, prices),
     currency |-> currency(inf),
     discount_premium_pct |-> None,
     fcf_current |-> None,
     growth_rate_used |-> None,
     terminal_growth_rate |-> terminal_growth_rate,
     wacc_used |-> None,
     enterprise_value |-> None,
     equity_value |-> None,
     shares_outstanding |-> None,
     projection_years |-> Num(projection_years),
     assumptions |-> Dict,
     error |-> None]

\* an except clause that lets the exception go on to the caller
Reraise(result_so_far, e) == e

\* the except clause of a model (`except Exception as e`): the call returns
\* the result built so far, with str(e) as its error
Caught(result_so_far, e) == [result_so_far EXCEPT !.error = Str(e.exc)]

\* the statement whose presence calculate_dcf_valuation checks before it
\* reads the cash flow statement
DcfPresenceKey == "income_stmt_annual"

\* no test of WACC against the terminal growth rate
WaccNeverRejected(wacc, terminal_growth_rate) == FALSE

\* the test of WACC against the terminal growth rate
WaccRejected(wacc, terminal_growth_rate) == QLeq(wacc, terminal_growth_rate)

\* calculate_dcf_valuation, from the shares outstanding on: the value per
\* share and the discount or premium of the price to it
DcfPerShare(inf, price, r4, a4, equity_value) ==
    LET listed == Or(to_float(DictGet(inf, "sharesOutstanding")),
                     to_float(DictGet(inf, "impliedSharesOutstanding")))
        market_cap == _get_info_value(inf, "marketCap")
        from_cap == (~Truthy(listed) \/ QLeq(listed, FZero))
                    /\ Truthy(market_cap) /\ QPos(market_cap)
                    /\ Truthy(price) /\ QPos(price)
        shares_outstanding == IF from_cap THEN QDiv(market_cap, price) ELSE listed
        a5 == IF from_cap THEN Put(a4, "shares_calculated_from_market_cap", Bool(TRUE))
              ELSE a4
        intrinsic_value == QDiv(equity_value, shares_outstanding)
        r5 == [r4 EXCEPT !.assumptions = a5, !.shares_outstanding = shares_outstanding,
                         !.intrinsic_value_per_share = intrinsic_value]
        discount_premium == QDiv(QSub(price, intrinsic_value), intrinsic_value)
    IN  IF Truthy(shares_outstanding) /\ QPos(shares_outstanding)
        THEN IF Truthy(price) /\ QPos(price)
             THEN IF IsRaised(discount_premium) THEN Caught(r5, discount_premium)
                  ELSE [r5 EXCEPT !.discount_premium_pct = QMul(discount_premium, Num(100))]
             ELSE r5
        ELSE [r4 EXCEPT !.assumptions = a5, !.error = Str("Shares outstanding not available")]

\* calculate_dcf_valuation, from the enterprise value on: net debt and the
\* equity value
DcfEquity(inf, price, r2, a3, enterprise_value) ==
    LET cash == Or(_get_info_value(inf, "totalCash"), FZero)
        debt == Or(_get_info_value(inf, "totalDebt"), FZero)
        net_debt == QSub(debt, cash)
        equity_value == QSub(enterprise_value, net_debt)
        a4 == Put(Put(Put(a3, "cash", cash), "debt", debt), "net_debt", net_debt)
        r4 == [r2 EXCEPT !.enterprise_value = enterprise_value,
                         !.equity_value = equity_value, !.assumptions = a4]
    IN  DcfPerShare(inf, price, r4, a4, equity_value)

\* calculate_dcf_valuation, from the projection on: the projected cash flows,
\* the terminal value and their present values
DcfProjection(inf, price, r2, a2, fcf_current, g, w, terminal_growth_rate, projection_years) ==
    LET G == QAdd(Num(1), QDiv(g, Num(100)))
        W == QAdd(Num(1), QDiv(w, Num(100)))
        T == QAdd(Num(1), QDiv(terminal_growth_rate, Num(100)))
        fcf_terminal == QMul(QMul(fcf_current, QPow(G, projection_years)), T)
        terminal_value == QDiv(fcf_terminal, QDiv(QSub(w, terminal_growth_rate), Num(100)))
        pv_terminal_value == QDiv(terminal_value, QPow(W, projection_years))
        pv_projected_fcf == PvProjected(fcf_current, G, W, projection_years)
        a3 == Put(Put(Put(a2, "pv_projected_fcf", pv_projected_fcf),
                      "terminal_value", terminal_value),
                  "pv_terminal_value", pv_terminal_value)
    IN  IF W.n = 0 \/ w = terminal_growth_rate
        THEN Caught(r2, Raised("float division by zero"))
        ELSE DcfEquity(inf, price, r2, a3, QAdd(pv_projected_fcf, pv_terminal_value))

\* calculate_dcf_valuation, from the rates on: the growth rate and the WACC
\* that are used, and the test of the WACC
DcfRates(inf, funds, price, r1, fcf_current, growth_rate, terminal_growth_rate, wacc, projection_years) ==
    LET est == _estimate_fcf_growth_rate(funds)
        g == IF IsNone(growth_rate) THEN (IF IsNone(est) THEN Num(5) ELSE est)
             ELSE growth_rate
        w == IF IsNone(wacc) THEN _estimate_wacc(inf) ELSE wacc
        a2 == Put(Put(Dict, "growth_rate_source",
                      Str(IF IsNone(growth_rate) THEN "historical_fcf" ELSE "user_provided")),
                  "wacc_source",
                  Str(IF IsNone(wacc) THEN "estimated_from_beta" ELSE "user_provided"))
        r2 == [r1 EXCEPT !.growth_rate_used = g, !.wacc_used = w, !.assumptions = a2]
    IN  IF WaccRejected(w, terminal_growth_rate)
        THEN [r2 EXCEPT !.error = Str("WACC must exceed terminal growth for DCF calculation")]
        ELSE DcfProjection(inf, price, r2, a2, fcf_current, g, w, terminal_growth_rate, projection_years)

\* calculate_dcf_valuation(growth_rate, terminal_growth_rate, wacc, projection_years)
calculate_dcf_valuation(inf, funds, prices, growth_rate, terminal_growth_rate, wacc, projection_years) ==
    LET price == current_price(inf, prices)
        r0 == DcfResult(inf, prices, terminal_growth_rate, projection_years)
        cash_flow_a == DictGet(funds, DcfPresenceKey)
        fcf_current == _get_value(DictGet(funds, "cash_flow_annual"), "Free Cash Flow", 0)
        r1 == [r0 EXCEPT !.fcf_current = fcf_current]
    IN  IF IsNone(cash_flow_a) \/ StmtEmpty(cash_flow_a)
        THEN [r0 EXCEPT !.error = Str("No annual cash flow data available")]
        ELSE IF IsNone(fcf_current)
        THEN [r0 EXCEPT !.error = Str("Free Cash Flow not available")]
        ELSE IF QLeq(fcf_current, FZero)
        THEN [r1 EXCEPT !.error = Str("Negative or zero FCF - DCF not applicable")]
        ELSE DcfRates(inf, funds, price, r1, fcf_current, growth_rate, terminal_growth_rate, wacc, projection_years)

----------------------------------------------------------------------------
(* ValuationAnalyzer: dividend series, DDM *)

\* a dividend series: payments in date order, each a day and an amount
Series(rows) == [k |-> "series", rows |-> rows]
SeriesEmpty(s) == s.rows = <<>>
Amounts(s) == [i \in 1..Len(s.rows) |-> s.rows[i].amount]
Dates(s) == [i \in 1..Len(s.rows) |-> s.rows[i].date]

\* days in a calendar year (leap days are left out of the calendar)
YearDays == 365
Year(d) == d \div YearDays

\* series.tail(n).sum()
TailSum(s, n) ==
    LET a == Amounts(s)
        m == Min2(n, Len(a))
    IN  SumSeq(SubSeq(a, Len(a) - m + 1, Len(a)))

\* utils.dataframe_utils.normalize_datetime_index: a copy of the series with
\* a timezone-naive index; the days and amounts are those of the argument
normalize_datetime_index(s) == s

\* the median of the gaps, in whole days (Timedelta.days)
MedianDays(gaps) ==
    LET sorted == SortSeq(gaps, <)
        n == Len(sorted)
    IN  IF n % 2 = 1 THEN sorted[(n + 1) \div 2]
        ELSE (sorted[n \div 2] + sorted[n \div 2 + 1]) \div 2

\* a classifier that looks at the gap before the last payment only
FrequencyOfLastGap(s) ==
    IF Len(s.rows) < 2 THEN "unknown"
    ELSE LET last_days == s.rows[Len(s.rows)].date - s.rows[Len(s.rows) - 1].date
         IN  IF last_days > 300 THEN "annual"
             ELSE IF last_days > 150 THEN "semi-annual"
             ELSE IF last_days > 60 THEN "quarterly"
             ELSE IF last_days > 20 THEN "monthly"
             ELSE "irregular"

\* _get_dividend_frequency
_get_dividend_frequency(s) ==
    IF Len(s.rows) < 2 THEN "unknown"
    ELSE LET d == Dates(s)
             median_days == MedianDays([i \in 1..(Len(d) - 1) |-> d[i + 1] - d[i]])
         IN  IF median_days > 300 THEN "annual"
             ELSE IF median_days > 150 THEN "semi-annual"
             ELSE IF median_days > 60 THEN "quarterly"
             ELSE IF median_days > 20 THEN "monthly"
             ELSE "irregular"

\* the payments of the calendar year that `today` is in
InCalendarYear(date, today) == Year(date) = Year(today)

\* the payments on or after now - 12 months; now is an instant during the
\* day `today`, a payment is dated at midnight
InTtmWindow(date, today) == date > today - YearDays

\* _calculate_ttm_dividend
_calculate_ttm_dividend(s, today) ==
    IF SeriesEmpty(s) THEN FZero
    ELSE LET frequency == _get_dividend_frequency(s)
             ttm == SelectSeq(s.rows, LAMBDA r : InTtmWindow(r.date, today))
             ttm_sum == SumSeq([i \in 1..Len(ttm) |-> ttm[i].amount])
         IN  IF ttm # <<>> /\ ttm_sum > 0 THEN Num(ttm_sum)
             ELSE IF frequency = "annual" THEN Num(TailSum(s, 1))
             ELSE IF frequency = "semi-annual" THEN Num(TailSum(s, 2))
             ELSE IF frequency = "quarterly" THEN Num(TailSum(s, 4))
             ELSE IF frequency = "monthly" THEN Num(TailSum(s, 12))
             ELSE Num(TailSum(s, Min2(4, Len(s.rows))))

\* series.resample("YE").sum(): one total per calendar year from the year of
\* the first payment to the year of the last one
AnnualTotals(s) ==
    LET first == Year(s.rows[1].date)
        last == Year(s.rows[Len(s.rows)].date)
    IN  [i \in 1..(last - first + 1) |->
            LET in_year == SelectSeq(s.rows, LAMBDA r : Year(r.date) = first + i - 1)
            IN  SumSeq([j \in 1..Len(in_year) |-> in_year[j].amount])]

IsPositive(x) == x > 0

\* the annual totals the growth rate is taken over: the positive ones, the
\* last five at most
RecentDividends(s) ==
    LET annual == SelectSeq(AnnualTotals(s), IsPositive)
        years_to_use == Min2(5, Len(annual))
    IN  SubSeq(annual, Len(annual) - years_to_use + 1, Len(annual))

\* _estimate_dividend_growth_rate
_estimate_dividend_growth_rate(dividends) ==
    IF IsNone(dividends) \/ SeriesEmpty(dividends) THEN None
    ELSE LET recent == RecentDividends(normalize_datetime_index(dividends))
         IN  IF Len(recent) < 2 THEN None
             ELSE _calculate_cagr(Num(recent[Len(recent)]), Num(recent[1]), Len(recent) - 1)

\* the result dict calculate_ddm_valuation starts from
DdmResult(inf, prices) ==
    [k |-> "dict",
     intrinsic_value_per_share |-> None,
     current_price |-> current_price(inf, prices),
     currency |-> currency(inf),
     discount_premium_pct |-> None,
     current_dividend |-> None,
     next_dividend_estimate |-> None,
     growth_rate_used |-> None,
     required_return_used |-> None,
     model |-> Str("Gordon Growth Model"),
     assumptions |-> Dict,
     error |-> None]

\* no test of the required return against the growth rate
ReturnNeverRejected(required_return, growth_rate) == FALSE

\* the test of the required return against the growth rate
ReturnRejected(required_return, growth_rate) == QLeq(required_return, growth_rate)

\* calculate_ddm_valuation, from the next dividend on: the value per share
\* and the discount or premium of the price to it
DdmPerShare(price, r2, ttm_dividend, g, r) ==
    LET d1 == QMul(ttm_dividend, QAdd(Num(1), QDiv(g, Num(100))))
        intrinsic_value == QDiv(d1, QDiv(QSub(r, g), Num(100)))
        r3 == [r2 EXCEPT !.next_dividend_estimate = d1,
                         !.intrinsic_value_per_share = intrinsic_value]
        discount_premium == QDiv(QSub(price, intrinsic_value), intrinsic_value)
    IN  IF r = g
        THEN Caught([r2 EXCEPT !.next_dividend_estimate = d1], Raised("float division by zero"))
        ELSE IF Truthy(price) /\ QPos(price)
        THEN IF IsRaised(discount_premium) THEN Caught(r3, discount_premium)
             ELSE [r3 EXCEPT !.discount_premium_pct = QMul(discount_premium, Num(100))]
        ELSE r3

\* calculate_ddm_valuation, from the trailing dividend on: the growth rate
\* and the required return that are used, and the test of the return
DdmRates(inf, price, r0, dividends, ttm_dividend, growth_rate, required_return) ==
    LET est == _estimate_dividend_growth_rate(dividends)
        g == IF IsNone(growth_rate) THEN (IF IsNone(est) THEN Num(3) ELSE est)
             ELSE growth_rate
        r == IF IsNone(required_return) THEN _estimate_wacc(inf) ELSE required_return
        a2 == Put(Put(Dict, "growth_rate_source",
                      Str(IF IsNone(growth_rate) THEN "historical_dividends"
                          ELSE "user_provided")),
                  "required_return_source",
                  Str(IF IsNone(required_return) THEN "estimated_from_beta"
                      ELSE "user_provided"))
        r2 == [r0 EXCEPT !.current_dividend = ttm_dividend, !.growth_rate_used = g,
                         !.required_return_used = r, !.assumptions = a2]
    IN  IF QLeq(ttm_dividend, FZero)
        THEN [r0 EXCEPT !.error = Str("No dividends paid in trailing 12 months")]
        ELSE IF ReturnRejected(r, g)
        THEN [r2 EXCEPT !.error = Str("Required return must exceed dividend growth for DDM calculation")]
        ELSE DdmPerShare(price, r2, ttm_dividend, g, r)

\* calculate_ddm_valuation(growth_rate, required_return)
calculate_ddm_valuation(inf, prices, dividends, today, growth_rate, required_return) ==
    LET r0 == DdmResult(inf, prices)
    IN  IF IsNone(dividends) \/ SeriesEmpty(dividends)
        THEN [r0 EXCEPT !.error = Str("No dividend history available")]
        ELSE IF SumSeq(Amounts(dividends)) <= 0
        THEN [r0 EXCEPT !.error = Str("Stock does not pay dividends - DDM not applicable")]
        ELSE DdmRates(inf, current_price(inf, prices), r0, dividends,
                      _calculate_ttm_dividend(normalize_datetime_index(dividends), today),
                      growth_rate, required_return)

----------------------------------------------------------------------------
(* ValuationAnalyzer: dividend analysis *)

QGeq(a, b) == QLeq(b, a)
QGreater(a, b) == QLess(b, a)

\* str() of a timestamp
DateStr(d) == [k |-> "datestr", d |-> d]

\* the number of most recent calendar years in a row with a positive total
RECURSIVE Consecutive(_)
Consecutive(annual) ==
    IF annual = <<>> \/ annual[Len(annual)] <= 0 THEN 0
    ELSE 1 + Consecutive(SubSeq(annual, 1, Len(annual) - 1))

\* a score that looks at the payout ratio only
PayoutOnlyScore(dividend_data) ==
    IF IsNone(dividend_data.payout_ratio) THEN 0
    ELSE IF QLeq(dividend_data.payout_ratio, Num(50)) THEN 40
    ELSE IF QLeq(dividend_data.payout_ratio, Num(70)) THEN 30
    ELSE IF QLeq(dividend_data.payout_ratio, Num(90)) THEN 15
    ELSE IF QLeq(dividend_data.payout_ratio, Num(100)) THEN 5
    ELSE 0

\* _calculate_dividend_sustainability_score
_calculate_dividend_sustainability_score(dividend_data) ==
    LET payout == dividend_data.payout_ratio
        growth == dividend_data.dividend_growth_rate
        consecutive == Or(dividend_data.consecutive_years, FZero)
        payout_points ==
            IF IsNone(payout) THEN 0
            ELSE IF QLeq(payout, Num(50)) THEN 40
            ELSE IF QLeq(payout, Num(70)) THEN 30
            ELSE IF QLeq(payout, Num(90)) THEN 15
            ELSE IF QLeq(payout, Num(100)) THEN 5
            ELSE 0
        growth_points ==
            IF IsNone(growth) THEN 0
            ELSE IF QGeq(growth, Num(10)) THEN 30
            ELSE IF QGeq(growth, Num(5)) THEN 20
            ELSE IF QGeq(growth, FZero) THEN 10
            ELSE 0
        years_points ==
            IF QGeq(consecutive, Num(10)) THEN 30
            ELSE IF QGeq(consecutive, Num(5)) THEN 20
            ELSE IF QGeq(consecutive, Num(3)) THEN 10
            ELSE IF QGeq(consecutive, Num(1)) THEN 5
            ELSE 0
    IN  payout_points + growth_points + years_points

\* the rating that analyze_dividends derives from the score
SustainabilityRating(score) ==
    IF score >= 80 THEN "Excellent"
    ELSE IF score >= 60 THEN "Good"
    ELSE IF score >= 40 THEN "Fair"
    ELSE IF score >= 20 THEN "Poor"
    ELSE "High Risk"

\* the warnings as three separate tests, each adding its own warning
AllPayoutWarnings(payout_ratio, coverage) ==
    (IF QGreater(payout_ratio, Num(1))
     THEN <<Str("Payout ratio > 100% - dividends exceed earnings (unsustainable)")>>
     ELSE <<>>)
    \o (IF QGreater(payout_ratio, Quot(8, 10))
        THEN <<Str("High payout ratio (>80%) - limited room for growth")>>
        ELSE <<>>)
    \o (IF QLess(coverage, Quot(15, 10))
        THEN <<Str("Low dividend coverage (<1.5x) - risk of dividend cut")>>
        ELSE <<>>)

\* the warnings of analyze_dividends: one if / elif / elif chain
PayoutWarnings(payout_ratio, coverage) ==
    IF QGreater(payout_ratio, Num(1))
    THEN <<Str("Payout ratio > 100% - dividends exceed earnings (unsustainable)")>>
    ELSE IF QGreater(payout_ratio, Quot(8, 10))
    THEN <<Str("High payout ratio (>80%) - limited room for growth")>>
    ELSE IF QLess(coverage, Quot(15, 10))
    THEN <<Str("Low dividend coverage (<1.5x) - risk of dividend cut")>>
    ELSE <<>>

\* the result dict analyze_dividends starts from
DividendResult ==
    [k |-> "dict",
     pays_dividends |-> Bool(FALSE),
     dividend_yield |-> None,
     annual_dividend |-> None,
     payout_ratio |-> None,
     dividend_growth_rate |-> None,
     dividend_coverage_ratio |-> None,
     consecutive_years |-> None,
     latest_ex_dividend_date |-> None,
     sustainability_score |-> None,
     sustainability_rating |-> None,
     warnings |-> <<>>]

\* analyze_dividends
analyze_dividends(inf, dividends, today) ==
    LET dividend_yield == _get_info_value(inf, "dividendYield")
        has_dividend_data ==
            ~IsNone(dividends) /\ ~SeriesEmpty(dividends) /\ SumSeq(Amounts(dividends)) > 0
        has_yield == Truthy(dividend_yield) /\ QPos(dividend_yield)
        r1 == [DividendResult EXCEPT
                 !.pays_dividends = Bool(TRUE),
                 !.dividend_yield =
                     IF has_yield
                     THEN (IF QGreater(dividend_yield, Num(1)) THEN dividend_yield
                           ELSE QMul(dividend_yield, Num(100)))
                     ELSE None]
        dividends_series == normalize_datetime_index(dividends)
        r2 == IF has_dividend_data
              THEN [r1 EXCEPT
                      !.annual_dividend = _calculate_ttm_dividend(dividends_series, today),
                      !.dividend_growth_rate = _estimate_dividend_growth_rate(dividends),
                      !.consecutive_years = Num(Consecutive(AnnualTotals(dividends_series))),
                      !.latest_ex_dividend_date =
                          DateStr(dividends_series.rows[Len(dividends_series.rows)].date)]
              ELSE r1
        payout_ratio == _get_info_value(inf, "payoutRatio")
        has_payout == Truthy(payout_ratio) /\ QPos(payout_ratio)
        coverage == QDiv(Num(1), payout_ratio)
        r3 == [r2 EXCEPT
                 !.payout_ratio =
                     IF Truthy(payout_ratio) THEN QMul(payout_ratio, Num(100)) ELSE None,
                 !.dividend_coverage_ratio = IF has_payout THEN coverage ELSE None,
                 !.warnings = IF has_payout THEN PayoutWarnings(payout_ratio, coverage)
                              ELSE <<>>]
        score == _calculate_dividend_sustainability_score(r3)
    IN  IF ~has_dividend_data /\ ~has_yield THEN DividendResult
        ELSE [r3 EXCEPT !.sustainability_score = Num(score),
                        !.sustainability_rating = Str(SustainabilityRating(score))]

----------------------------------------------------------------------------
(* ValuationAnalyzer: earnings analysis *)

\* a table of rows (earnings history, earnings dates); index says what the
\* index holds: "datetime" (a DatetimeIndex), "strings" (dates as text) or
\* "unparseable" (text that pd.to_datetime rejects)
Table(index, rows) == [k |-> "table", index |-> index, rows |-> rows]
TableEmpty(t) == t.rows = <<>>

\* row.get(key, default)
RowGet(row, key, default) == IF key \in DOMAIN row THEN row[key] ELSE default

RECURSIVE QSum(_)
QSum(qs) == IF qs = <<>> THEN FZero ELSE QAdd(Head(qs), QSum(Tail(qs)))

\* df.tail(4)
Tail4(rows) == SubSeq(rows, Max2(1, Len(rows) - 3), Len(rows))

\* the entries of result["recent_surprises"]
RecentSurprises(earnings_history) ==
    LET recent == Tail4(earnings_history.rows)
    IN  [i \in 1..Len(recent) |->
            [k |-> "dict",
             quarter |-> RowGet(recent[i], "quarter", Str("")),
             eps_actual |-> to_float(RowGet(recent[i], "epsActual", None)),
             eps_estimate |-> to_float(RowGet(recent[i], "epsEstimate", None)),
             surprise_pct |-> QMul(to_float(RowGet(recent[i], "surprisePercent", FZero)),
                                   Num(100))]]

\* result["surprise_stats"]
SurpriseStats(recent_surprises) ==
    LET surprises == [i \in 1..Len(recent_surprises) |-> recent_surprises[i].surprise_pct]
        positive == Len(SelectSeq(surprises, LAMBDA s : s.n > 0))
        negative == Len(SelectSeq(surprises, LAMBDA s : s.n < 0))
    IN  [k |-> "dict",
         avg_surprise_pct |-> QDiv(QSum(surprises), Num(Len(surprises))),
         positive_surprises |-> Num(positive),
         negative_surprises |-> Num(negative),
         beat_rate |-> QMul(Quot(positive, Len(surprises)), Num(100))]

\* the names under which the operating cash flow is looked up
ocf_field_names ==
    <<"Operating Cash Flow", "Cash From Operating Activities",
      "Cash Flowsfromusedin Operating Activities Direct",
      "Total Cash From Operating Activities",
      "Net Cash Provided By Operating Activities">>

\* the loop over ocf_field_names: the first value that is neither None nor 0,
\* or else whatever the last name gave
RECURSIVE FirstOcf(_, _)
FirstOcf(cash_flow, i) ==
    LET ocf == _get_value(cash_flow, ocf_field_names[i], 0)
    IN  IF (~IsNone(ocf) /\ ~QZero(ocf)) \/ i = Len(ocf_field_names) THEN ocf
        ELSE FirstOcf(cash_flow, i + 1)

\* _assess_earnings_quality
_assess_earnings_quality(funds) ==
    LET quality == [k |-> "dict", assessment |-> None, score |-> None, metrics |-> Dict]
        income_stmt == DictGet(funds, "income_stmt_annual")
        cash_flow == DictGet(funds, "cash_flow_annual")
        net_income == _get_value(income_stmt, "Net Income", 0)
        ocf == FirstOcf(cash_flow, 1)
        cf_to_ni_ratio == QDiv(ocf, net_income)
        accruals_pct == QMul(QDiv(QSub(net_income, ocf), net_income), Num(100))
        metrics == Put(Put(Dict, "cash_flow_to_earnings_ratio", cf_to_ni_ratio),
                       "accruals_pct", accruals_pct)
    IN  IF IsNone(income_stmt) \/ IsNone(cash_flow) THEN quality
        ELSE IF StmtEmpty(income_stmt) \/ StmtEmpty(cash_flow) THEN quality
        ELSE IF Truthy(net_income) /\ Truthy(ocf) /\ QPos(net_income)
        THEN IF QGeq(cf_to_ni_ratio, Quot(12, 10))
             THEN [quality EXCEPT !.metrics = metrics, !.score = Num(90),
                      !.assessment = Str("High Quality (strong cash backing)")]
             ELSE IF QGeq(cf_to_ni_ratio, Num(1))
             THEN [quality EXCEPT !.metrics = metrics, !.score = Num(75),
                      !.assessment = Str("Good Quality (cash flow matches earnings)")]
             ELSE IF QGeq(cf_to_ni_ratio, Quot(8, 10))
             THEN [quality EXCEPT !.metrics = metrics, !.score = Num(50),
                      !.assessment = Str("Fair Quality (moderate cash backing)")]
             ELSE [quality EXCEPT !.metrics = metrics, !.score = Num(25),
                      !.assessment = Str("Low Quality (weak cash flow)")]
        ELSE quality

\* the trend that analyze_earnings derives from the one-year EPS growth
EarningsTrend(eps_growth_1y) ==
    IF ~Truthy(eps_growth_1y) THEN None
    ELSE IF QGreater(eps_growth_1y, Num(10)) THEN Str("Strong Growth")
    ELSE IF QGreater(eps_growth_1y, FZero) THEN Str("Moderate Growth")
    ELSE IF QGreater(eps_growth_1y, Num(-10)) THEN Str("Slight Decline")
    ELSE Str("Declining")

\* the earnings dates table as analyze_earnings leaves it: an index that is
\* not a DatetimeIndex is replaced by its conversion, in the caller's table
ConvertedDates(earnings) ==
    LET earnings_dates == DictGet(earnings, "earnings_dates")
    IN  IF ~IsNone(earnings_dates) /\ ~TableEmpty(earnings_dates)
           /\ earnings_dates.index = "strings"
        THEN [earnings EXCEPT !.earnings_dates.index = "datetime"]
        ELSE earnings

\* the result dict analyze_earnings starts from
EarningsResult ==
    [k |-> "dict",
     current_eps |-> None,
     forward_eps |-> None,
     eps_growth_1y |-> None,
     eps_growth_3y_cagr |-> None,
     next_earnings_date |-> None,
     next_earnings_estimate |-> None,
     recent_surprises |-> <<>>,
     surprise_stats |-> Dict,
     earnings_quality |-> Dict,
     trend |-> None]

\* analyze_earnings
analyze_earnings(inf, funds, earnings, today) ==
    LET earnings_history == DictGet(earnings, "earnings_history")
        has_history == ~IsNone(earnings_history) /\ ~TableEmpty(earnings_history)
        recent_eps == Tail4(earnings_history.rows)
        ttm_eps == QSum([i \in 1..Len(recent_eps) |->
                            to_float(RowGet(recent_eps[i], "epsActual", FZero))])
        recent_surprises == IF has_history THEN RecentSurprises(earnings_history) ELSE <<>>
        earnings_dates == DictGet(earnings, "earnings_dates")
        has_dates == ~IsNone(earnings_dates) /\ ~TableEmpty(earnings_dates)
                     /\ earnings_dates.index # "unparseable"
        upcoming == IF has_dates
                    THEN SelectSeq(earnings_dates.rows, LAMBDA r : r.date > today)
                    ELSE <<>>
        income_stmt == DictGet(funds, "income_stmt_annual")
        has_income == ~IsNone(income_stmt) /\ ~StmtEmpty(income_stmt)
        eps_current == Or(_get_value(income_stmt, "Diluted EPS", 0),
                          _get_value(income_stmt, "Basic EPS", 0))
        eps_1y == Or(_get_value(income_stmt, "Diluted EPS", 1),
                     _get_value(income_stmt, "Basic EPS", 1))
        eps_3y == Or(_get_value(income_stmt, "Diluted EPS", 3),
                     _get_value(income_stmt, "Basic EPS", 3))
        eps_growth_1y ==
            IF has_income /\ Truthy(eps_current) /\ Truthy(eps_1y) /\ ~QZero(eps_1y)
            THEN QMul(QDiv(QSub(eps_current, eps_1y), Quot(Abs(eps_1y.n), eps_1y.d)), Num(100))
            ELSE None
        eps_growth_3y_cagr ==
            IF has_income /\ Truthy(eps_current) /\ Truthy(eps_3y) /\ QPos(eps_3y)
            THEN _calculate_cagr(eps_current, eps_3y, 3)
            ELSE None
    IN  [EarningsResult EXCEPT
           !.current_eps = IF has_history /\ Len(recent_eps) = 4 /\ QPos(ttm_eps)
                           THEN ttm_eps ELSE None,
           !.forward_eps = _get_info_value(inf, "forwardEps"),
           !.recent_surprises = recent_surprises,
           !.surprise_stats = IF Len(recent_surprises) > 0
                              THEN SurpriseStats(recent_surprises) ELSE Dict,
           !.next_earnings_date = IF upcoming # <<>> THEN DateStr(upcoming[1].date)
                                  ELSE None,
           !.next_earnings_estimate =
               IF upcoming # <<>> THEN to_float(RowGet(upcoming[1], "EPS Estimate", None))
               ELSE None,
           !.eps_growth_1y = eps_growth_1y,
           !.eps_growth_3y_cagr = eps_growth_3y_cagr,
           !.trend = EarningsTrend(eps_growth_1y),
           !.earnings_quality = _assess_earnings_quality(funds)]

----------------------------------------------------------------------------
(* ValuationAnalyzer.analyze *)

\* the arguments calculate_dcf_valuation and calculate_ddm_valuation take
\* when analyze calls them: the defaults of their signatures
DefaultTerminalGrowth == Quot(5, 2)
DefaultProjectionYears == 5

\* the dict analyze returns; an exception escaping a section would end the
\* call with the sections before it lost
AnalyzeSections(dcf, ddm, div, ear) ==
    IF IsRaised(dcf) THEN dcf
    ELSE IF IsRaised(ddm) THEN ddm
    ELSE IF IsRaised(div) THEN div
    ELSE IF IsRaised(ear) THEN ear
    ELSE [k |-> "dict", ticker |-> Str("TICKER"), dcf_valuation |-> dcf,
          ddm_valuation |-> ddm, dividend_analysis |-> div, earnings_analysis |-> ear]

\* analyze: the four sections in the order they are computed
analyze(inf, funds, prices, dividends, earnings, today) ==
    AnalyzeSections(
        calculate_dcf_valuation(inf, funds, prices, None, DefaultTerminalGrowth, None, DefaultProjectionYears),
        calculate_ddm_valuation(inf, prices, dividends, today, None, None),
        analyze_dividends(inf, dividends, today),
        analyze_earnings(inf, funds, earnings, today))

----------------------------------------------------------------------------
(* The valuation engine as a state machine: one ValuationAnalyzer, the data *)
(* its caller built it from, and the calls the caller makes                 *)

\* most payments in a dividend series
MaxPayments == 3

\* a ticker info: every key the analyzer looks up, None where the provider
\* has no value
BaseInfo ==
    [k |-> "dict", currentPrice |-> None, beta |-> None, totalCash |-> None,
     totalDebt |-> None, sharesOutstanding |-> None, impliedSharesOutstanding |-> None,
     marketCap |-> None, market_cap |-> None, dividendYield |-> None,
     payoutRatio |-> None, forwardEps |-> None]

IncomeTypical ==
    Statement(4, ("Diluted EPS" :> <<Num(8), Num(4), Num(2), Num(1)>>)
                 @@ ("Net Income" :> <<Num(10), Num(8), Num(6), Num(4)>>))

\* Free Cash Flow histories (most recent period first): the levels make every
\* growth rate, and every value the DCF derives from it, an exact quotient
FcfHistories ==
    {<<f0, f1, f2>> : f0 \in {NaN, Num(-7), Num(0), Num(7)},
                      f1 \in {NaN, Num(5), Num(7), Num(10)},
                      f2 \in {NaN, Num(7)}}

CashFlowOf(fcf) ==
    Statement(3, ("Free Cash Flow" :> fcf)
                 @@ ("Operating Cash Flow" :> <<Num(12), Num(9), Num(9)>>))

EmptyStatement == Statement(0, [n \in {} |-> <<>>])

\* fundamentals: each statement absent from the dict, empty, or filled
FundamentalsOf(income, cash_flow) ==
    LET f1 == IF IsNone(income) THEN Dict ELSE Put(Dict, "income_stmt_annual", income)
    IN  IF IsNone(cash_flow) THEN f1 ELSE Put(f1, "cash_flow_annual", cash_flow)

TypicalFundamentals ==
    FundamentalsOf(IncomeTypical, CashFlowOf(<<Num(7), Num(7), NaN>>))

\* the debt that equals the enterprise value of the typical company with a
\* beta of 1/8: its equity value is 0.0
BreakEvenDebt ==
    calculate_dcf_valuation([BaseInfo EXCEPT !.beta = Quot(1, 8)], TypicalFundamentals, None,
                            None, DefaultTerminalGrowth, None,
                            DefaultProjectionYears).enterprise_value

NoEarnings == Dict

\* beta, totalCash and totalDebt: a company without a beta (the market beta
\* 1.0 is used) and without debt, and companies with a beta and any of the
\* cash / debt positions
Capital ==
    {<<None, None, None>>}
    \cup {<<beta, money[1], money[2]>> :
            beta \in {Quot(1, 8), Quot(53, 4)},
            money \in {<<None, None>>, <<None, Num(7)>>, <<None, BreakEvenDebt>>,
                       <<Num(1), Num(7)>>}}

\* family A: info and statements as the DCF reads them
InitDcfInputs ==
    /\ \E price \in {<<Num(8), None>>, <<None, DataFrame({"Close"}, 1, <<2, 4>>)>>,
                     <<None, None>>},
          capital \in Capital,
          shares \in {<<Num(2), None>>, <<None, Num(16)>>, <<None, None>>} :
            /\ price_data = price[2]
            /\ info = [BaseInfo EXCEPT !.currentPrice = price[1], !.beta = capital[1],
                          !.totalCash = capital[2], !.totalDebt = capital[3],
                          !.sharesOutstanding = shares[1], !.marketCap = shares[2]]
    /\ \E income \in {None, EmptyStatement, IncomeTypical},
          cash_flow \in {None, EmptyStatement} \cup {CashFlowOf(h) : h \in FcfHistories} :
            fundamentals = FundamentalsOf(income, cash_flow)
    /\ dividends_data = None
    /\ earnings_data = NoEarnings
    /\ now = 0

\* dividend series: up to MaxPayments payments from FirstPaymentDay on, the
\* gap to the next payment and the amount drawn from small sets
FirstPaymentDay == 300
PaymentGaps == {30, 91, 200, 366}
PaymentAmounts == {0, 1, 4}

\* the day of payment i; the gaps between payments alternate between two
\* intervals (a regular payer has both the same)
RECURSIVE PaymentDays(_, _)
PaymentDays(gaps, i) ==
    IF i = 1 THEN FirstPaymentDay ELSE PaymentDays(gaps, i - 1) + gaps[(i % 2) + 1]

\* the growth rate of the series is an exact quotient
ExactGrowth(s) ==
    LET recent == RecentDividends(s)
    IN  Len(recent) >= 2 =>
            \/ Len(recent) = 2
            \/ HasQRoot(Quot(recent[Len(recent)], recent[1]), Len(recent) - 1)

DividendSeries ==
    {None, Series(<<>>)}
    \cup {s \in {Series([i \in 1..n |-> [date |-> PaymentDays(gaps, i), amount |-> amounts[i]]]) :
                    n \in 1..MaxPayments,
                    gaps \in [1..2 -> PaymentGaps],
                    amounts \in [1..MaxPayments -> PaymentAmounts]} : ExactGrowth(s)}

NowLevels == {700, 1500}

\* family B: payout figures and dividend histories, for a typical company
InitDividendInputs ==
    /\ \E payout \in {<<None, None>>, <<Quot(2, 5), Quot(3, 100)>>, <<Quot(17, 20), None>>,
                      <<Quot(6, 5), Quot(7, 2)>>} :
            info = [BaseInfo EXCEPT !.currentPrice = Num(8), !.sharesOutstanding = Num(2),
                       !.payoutRatio = payout[1], !.dividendYield = payout[2]]
    /\ price_data = None
    /\ fundamentals = TypicalFundamentals
    /\ dividends_data \in DividendSeries
    /\ earnings_data = NoEarnings
    /\ now \in NowLevels

\* earnings history rows (oldest first) and earnings dates (in table order)
Quarter(q, actual, estimate, surprise) ==
    [quarter |-> Str(q), epsActual |-> actual, epsEstimate |-> estimate,
     surprisePercent |-> surprise]

HistoryRows ==
    <<Quarter("1Q", Num(1), Num(1), FZero), Quarter("2Q", Num(2), Num(1), Num(1)),
      Quarter("3Q", Num(1), Num(2), Quot(-1, 2)), Quarter("4Q", Num(3), Num(2), Quot(1, 2))>>

DateRows ==
    <<[date |-> 1600, estimate |-> Num(2)], [date |-> 1000, estimate |-> NaN],
      [date |-> 600, estimate |-> Num(1)]>>

DateTable(index) ==
    Table(index, [i \in 1..Len(DateRows) |->
                     ("date" :> DateRows[i].date) @@ ("EPS Estimate" :> DateRows[i].estimate)])

EarningsProfiles ==
    {NoEarnings,
     Put(Dict, "earnings_history", Table("range", HistoryRows)),
     Put(Put(Dict, "earnings_history", Table("range", Tail(HistoryRows))),
         "earnings_dates", DateTable("strings")),
     Put(Put(Dict, "earnings_history", Table("range", <<>>)),
         "earnings_dates", DateTable("datetime")),
     Put(Dict, "earnings_dates", DateTable("unparseable"))}

EpsRows ==
    {("Diluted EPS" :> <<c, e1, NaN, e3>>) @@ basic @@ income :
        c \in {NaN, Num(0), Num(8), Num(-8)},
        e1 \in {NaN, Num(4), Num(8), Num(-4)},
        e3 \in {NaN, Num(1)},
        basic \in {<<>>, "Basic EPS" :> <<Num(1), Num(1), Num(1), Num(1)>>},
        income \in {<<>>, "Net Income" :> <<Num(10), Num(8), Num(6), Num(4)>>}}

OcfRows ==
    {"Operating Cash Flow" :> <<Num(0), Num(9), Num(9)>>,
     "Operating Cash Flow" :> <<Num(12), Num(9), Num(9)>>,
     ("Operating Cash Flow" :> <<NaN, Num(9), Num(9)>>)
        @@ ("Total Cash From Operating Activities" :> <<Num(9), Num(9), Num(9)>>),
     "Operating Cash Flow" :> <<Num(5), Num(9), Num(9)>>}

\* family C: earnings figures, for a company without dividends
InitEarningsInputs ==
    /\ \E forward \in {None, Num(3)} :
            info = [BaseInfo EXCEPT !.currentPrice = Num(8), !.sharesOutstanding = Num(2),
                       !.forwardEps = forward]
    /\ price_data = None
    /\ \E eps \in EpsRows, ocf \in OcfRows :
            fundamentals = FundamentalsOf(Statement(4, eps),
                                          Statement(3, ("Free Cash Flow" :> <<Num(7), Num(7), NaN>>) @@ ocf))
    /\ dividends_data = None
    /\ earnings_data \in EarningsProfiles
    /\ now \in NowLevels

\* gaps on both sides of each threshold of the frequency classifier
BoundaryGaps == {20, 21, 60, 61, 150, 151, 300, 301}

\* histories whose payments grow by one unit each time
BoundarySeries ==
    {s \in {Series([i \in 1..n |-> [date |-> PaymentDays(gaps, i), amount |-> i]]) :
                n \in 1..MaxPayments, gaps \in [1..2 -> BoundaryGaps]} : ExactGrowth(s)}

\* payout ratios on each step of the payout scale below 100%
PayoutSteps == {Quot(2, 5), Quot(3, 5), Quot(3, 4), Quot(19, 20)}

\* family D: dividend histories at the classifier's thresholds
InitFrequencyInputs ==
    /\ \E payout \in PayoutSteps :
            info = [BaseInfo EXCEPT !.currentPrice = Num(8), !.sharesOutstanding = Num(2),
                       !.payoutRatio = payout, !.dividendYield = Quot(3, 100)]
    /\ price_data = None
    /\ fundamentals = TypicalFundamentals
    /\ dividends_data \in BoundarySeries
    /\ earnings_data = NoEarnings
    /\ now \in NowLevels

InitValuation ==
    /\ benchmark_data = None
    /\ args = None
    /\ risk_free = 0
    /\ fetches = 0
    /\ op = "init"
    /\ result = None
    /\ \/ InitDcfInputs
       \/ InitDividendInputs
       \/ InitEarningsInputs
       \/ InitFrequencyInputs

\* a call that leaves the caller's earnings tables as `earnings`
ReturnEarnings(name, val, earnings) ==
    /\ Idle
    /\ op' = name
    /\ result' = val
    /\ earnings_data' = earnings
    /\ UNCHANGED <<price_data, benchmark_data, risk_free, fetches, info, fundamentals,
                   dividends_data, now, args>>

\* the arguments a caller passes to calculate_dcf_valuation: growth_rate,
\* terminal_growth_rate, wacc, projection_years
DcfArguments ==
    {<<None, DefaultTerminalGrowth, None, DefaultProjectionYears>>,
     <<Num(0), Num(0), Num(100), 1>>,
     <<Num(0), DefaultTerminalGrowth, Num(2), 1>>,
     <<None, DefaultTerminalGrowth, DefaultTerminalGrowth, DefaultProjectionYears>>}

\* the arguments a caller passes to calculate_ddm_valuation: growth_rate,
\* required_return
DdmArguments ==
    {<<None, None>>, <<Num(3), Num(3)>>, <<Num(-100), None>>, <<None, Num(1)>>}

DcfValuation ==
    \E a \in DcfArguments :
        Return("calculate_dcf_valuation",
               calculate_dcf_valuation(info, fundamentals, price_data, a[1], a[2], a[3], a[4]),
               0)

DdmValuation ==
    \E a \in DdmArguments :
        Return("calculate_ddm_valuation",
               calculate_ddm_valuation(info, price_data, dividends_data, now, a[1], a[2]),
               0)

\* the two helpers of the dividend models, called on a dividend series
DividendFrequency ==
    /\ dividends_data.k = "series"
    /\ Return("_get_dividend_frequency", Str(_get_dividend_frequency(dividends_data)), 0)

TtmDividend ==
    /\ dividends_data.k = "series"
    /\ Return("_calculate_ttm_dividend", _calculate_ttm_dividend(dividends_data, now), 0)

AnalyzeDividends ==
    Return("analyze_dividends", analyze_dividends(info, dividends_data, now), 0)

AnalyzeEarnings ==
    ReturnEarnings("analyze_earnings",
                   analyze_earnings(info, fundamentals, earnings_data, now),
                   ConvertedDates(earnings_data))

Analyze ==
    ReturnEarnings("analyze",
                   analyze(info, fundamentals, price_data, dividends_data, earnings_data, now),
                   ConvertedDates(earnings_data))

NextValuation ==
    \/ DcfValuation
    \/ DdmValuation
    \/ DividendFrequency
    \/ TtmDividend
    \/ AnalyzeDividends
    \/ AnalyzeEarnings
    \/ Analyze
    \/ Consume

SpecValuation == InitValuation /\ [][NextValuation]_vars

----------------------------------------------------------------------------
(* Claims about the valuation engine *)

\* a model's result dict reports a failure: a non-empty error string and no
\* intrinsic value
FailsExplicitly(r) ==
    /\ r.k = "dict"
    /\ r.error.k = "str"
    /\ r.error.s # ""
    /\ r.intrinsic_value_per_share = None

\* the period-0 Free Cash Flow of the statements held
Fcf0 == _get_value(DictGet(fundamentals, "cash_flow_annual"), "Free Cash Flow", 0)

\* C4: calculate_dcf_valuation returns normally with a non-empty error string
\* and intrinsic_value_per_share = None whenever the period-0 Free Cash Flow
\* is <= 0, and whenever FCF > 0 but the WACC used is <= the terminal growth
\* rate.
C4_DcfFailsExplicitly ==
    op = "calculate_dcf_valuation" =>
        /\ result.k = "dict"
        /\ (~IsNone(Fcf0) /\ QLeq(Fcf0, FZero)) => FailsExplicitly(result)
        /\ (QPos(Fcf0) /\ ~IsNone(result.wacc_used)
              /\ QLeq(result.wacc_used, result.terminal_growth_rate))
             => FailsExplicitly(result)

\* a DCF call with positive FCF that used a WACC below the terminal growth
\* rate and was refused
C4_Witness ==
    /\ op = "calculate_dcf_valuation"
    /\ QPos(Fcf0)
    /\ ~IsNone(result.wacc_used)
    /\ QLess(result.wacc_used, result.terminal_growth_rate)
    /\ FailsExplicitly(result)

\* C5: calculate_ddm_valuation returns normally with a non-empty error string
\* and intrinsic_value_per_share = None whenever the dividend series is
\* missing, empty or sums to 0, and whenever the required return used is <=
\* the growth rate used; no intrinsic value is ever produced with required
\* return <= growth rate.
C5_DdmFailsExplicitly ==
    op = "calculate_ddm_valuation" =>
        /\ result.k = "dict"
        /\ (IsNone(dividends_data) \/ SeriesEmpty(dividends_data)
              \/ SumSeq(Amounts(dividends_data)) = 0) => FailsExplicitly(result)
        /\ (~IsNone(result.required_return_used)
              /\ QLeq(result.required_return_used, result.growth_rate_used))
             => FailsExplicitly(result)
        /\ ~IsNone(result.intrinsic_value_per_share)
             => QLess(result.growth_rate_used, result.required_return_used)

\* a DDM call on a paying stock whose required return was below the growth
\* rate estimated from its history, and was refused
C5_Witness ==
    /\ op = "calculate_ddm_valuation"
    /\ ~IsNone(dividends_data)
    /\ SumSeq(Amounts(dividends_data)) > 0
    /\ ~IsNone(result.required_return_used)
    /\ QLess(result.required_return_used, result.growth_rate_used)
    /\ FailsExplicitly(result)

AnalyzeKeys ==
    {"ticker", "dcf_valuation", "ddm_valuation", "dividend_analysis", "earnings_analysis"}

\* C6: analyze never raises and always returns the four sections; a model
\* that fails carries its error in its own dict, and each section is what its
\* model gives for the inputs on its own, whatever became of the others.
C6_AnalyzeIsolatesFailures ==
    op = "analyze" =>
        /\ result.k = "dict"
        /\ Keys(result) = AnalyzeKeys
        /\ \A section \in AnalyzeKeys \ {"ticker"} : result[section].k = "dict"
        /\ result.dcf_valuation =
              calculate_dcf_valuation(info, fundamentals, price_data, None,
                                      DefaultTerminalGrowth, None, DefaultProjectionYears)
        /\ result.ddm_valuation =
              calculate_ddm_valuation(info, price_data, dividends_data, now, None, None)
        /\ result.dividend_analysis = analyze_dividends(info, dividends_data, now)
        /\ result.earnings_analysis = analyze_earnings(info, fundamentals, earnings_data, now)
        /\ "error" \notin DOMAIN result.dividend_analysis
        /\ "error" \notin DOMAIN result.earnings_analysis

\* an analyze call in which the DCF met an exception (the equity value is 0.0,
\* so the premium divides by zero) and the other sections were computed
C6_Witness ==
    /\ op = "analyze"
    /\ result.k = "dict"
    /\ result.dcf_valuation.error = Str("float division by zero")
    /\ result.ddm_valuation.error = Str("No dividend history available")
    /\ result.earnings_analysis.trend = Str("Strong Growth")

----------------------------------------------------------------------------
(* FundamentalAnalyzer (src/src/fundamental_analysis.py) *)

\* FundamentalAnalyzer._get_value
FundamentalValue(df, row_name, col_index) ==
    IF IsNone(df) \/ StmtEmpty(df) THEN None
    ELSE IF row_name \notin DOMAIN df.rows THEN None
    ELSE IF col_index + 1 > df.ncols THEN None
    ELSE LET value == df.rows[row_name][col_index + 1]
         IN  IF value.k = "nan" \/ IsNone(value) THEN None ELSE value

QAbs(a) == [a EXCEPT !.n = Abs(a.n)]

\* _calculate_growth_rate
_calculate_growth_rate(current, previous) ==
    IF IsNone(current) \/ IsNone(previous) \/ QZero(previous) THEN None
    ELSE QMul(QDiv(QSub(current, previous), QAbs(previous)), Num(100))

\* the variant that reports 0 for a zero or missing denominator
ZeroDivide(numerator, denominator) ==
    IF IsNone(numerator) \/ IsNone(denominator) \/ QZero(denominator) THEN Num(0)
    ELSE QDiv(numerator, denominator)

\* _safe_divide
_safe_divide(numerator, denominator) ==
    IF IsNone(numerator) \/ IsNone(denominator) \/ QZero(denominator) THEN None
    ELSE QDiv(numerator, denominator)

\* FundamentalAnalyzer._calculate_cagr: ((current / past) ** (1 / years) - 1) * 100;
\* a root that is no quotient is kept as the root it is
GrowthOfRoot(root) ==
    IF IsNum(root) THEN QMul(QSub(root, Num(1)), Num(100))
    ELSE [k |-> "cagr", of |-> root]

\* q ** (1 / years): q itself over one year, a complex number for a negative
\* q and an exponent that is no whole number, the reciprocal of the root for
\* a negative number of years (ZeroDivisionError for 0.0 ** -x)
PowerOfYears(q, years) ==
    IF years < 0 /\ QZero(q) THEN Raised("ZeroDivisionError")
    ELSE IF q.n < 0 /\ Abs(years) # 1 THEN Complex
    ELSE LET root == IF Abs(years) = 1 THEN q ELSE QRoot(q, Abs(years))
         IN  IF years < 0 /\ IsNum(root) THEN QDiv(Num(1), root) ELSE root

FundamentalCagr(current, past, years) ==
    IF IsNone(current) \/ IsNone(past) \/ QZero(past) \/ years = 0 THEN None
    ELSE LET root == PowerOfYears(QDiv(current, past), years)
         IN  IF IsRaised(root) THEN None
             ELSE IF root = Complex THEN Complex
             ELSE GrowthOfRoot(root)

\* the statements the constructor takes from the fundamentals dict
income_stmt_a(funds) == DictGet(funds, "income_stmt_annual")
balance_sheet_a(funds) == DictGet(funds, "balance_sheet_annual")
cash_flow_a(funds) == DictGet(funds, "cash_flow_annual")

Present(df) == ~IsNone(df) /\ ~StmtEmpty(df)

\* a + b if a and b else None
SumIfBoth(a, b) == IF Truthy(a) /\ Truthy(b) THEN QAdd(a, b) ELSE None

\* the 1y / 3y_cagr / 5y_cagr entries of a line item of the income statement
GrowthOf(df, row_name) ==
    LET current == FundamentalValue(df, row_name, 0)
    IN  Put(Put(Put(Dict, "1y", _calculate_growth_rate(current, FundamentalValue(df, row_name, 1))),
                "3y_cagr", FundamentalCagr(current, FundamentalValue(df, row_name, 3), 3)),
            "5y_cagr", FundamentalCagr(current, FundamentalValue(df, row_name, 4), 5))

\* Operating Cash Flow + Capital Expenditure of a period, if both are truthy
FcfOf(df, col_index) ==
    SumIfBoth(FundamentalValue(df, "Operating Cash Flow", col_index),
              FundamentalValue(df, "Capital Expenditure", col_index))

\* calculate_growth_rates
calculate_growth_rates(funds) ==
    LET income == income_stmt_a(funds)
        cash == cash_flow_a(funds)
    IN  [k |-> "dict",
         revenue |-> IF Present(income) THEN GrowthOf(income, "Total Revenue") ELSE Dict,
         earnings |-> IF Present(income) THEN GrowthOf(income, "Net Income") ELSE Dict,
         fcf |-> IF Present(cash)
                 THEN Put(Put(Put(Dict, "1y", _calculate_growth_rate(FcfOf(cash, 0), FcfOf(cash, 1))),
                              "3y_cagr", FundamentalCagr(FcfOf(cash, 0), FcfOf(cash, 3), 3)),
                          "current", FcfOf(cash, 0))
                 ELSE Dict]

\* d[key] = value if the condition holds
PutIf(d, cond, key, value) == IF cond THEN Put(d, key, value) ELSE d

\* (a / b) * 100
Pct(a, b) == QMul(QDiv(a, b), Num(100))

\* calculate_fcf_metrics
calculate_fcf_metrics(inf, funds) ==
    LET cash == cash_flow_a(funds)
        ocf == FundamentalValue(cash, "Operating Cash Flow", 0)
        capex == FundamentalValue(cash, "Capital Expenditure", 0)
        fcf == QAdd(ocf, capex)
        market_cap == DictGet(inf, "market_cap")
        shares_outstanding == Or(DictGet(inf, "shares_outstanding"),
                                 DictGet(inf, "sharesOutstanding"))
        revenue == FundamentalValue(income_stmt_a(funds), "Total Revenue", 0)
    IN  IF Present(cash) /\ Truthy(ocf) /\ Truthy(capex)
        THEN PutIf(PutIf(PutIf(Put(Dict, "fcf", fcf),
                               Truthy(market_cap), "fcf_yield", Pct(fcf, market_cap)),
                         Truthy(shares_outstanding), "fcf_per_share",
                         QDiv(fcf, shares_outstanding)),
                   Truthy(revenue), "fcf_margin", Pct(fcf, revenue))
        ELSE Dict

\* the margin of a line item over revenue, entered if both are truthy
MarginIf(d, key, item, revenue) ==
    PutIf(d, Truthy(revenue) /\ Truthy(item), key, Pct(item, revenue))

TrendPeriods == <<"current", "1y_ago", "2y_ago">>

RECURSIVE MarginTrend(_, _)
MarginTrend(income, i) ==
    IF i = 0 THEN Dict
    ELSE MarginIf(MarginTrend(income, i - 1), TrendPeriods[i],
                  FundamentalValue(income, "Net Income", i - 1),
                  FundamentalValue(income, "Total Revenue", i - 1))

\* calculate_margins
calculate_margins(inf, funds) ==
    LET income == income_stmt_a(funds)
        revenue == FundamentalValue(income, "Total Revenue", 0)
        current ==
            IF Present(income)
            THEN MarginIf(MarginIf(MarginIf(MarginIf(Dict,
                     "gross_margin", FundamentalValue(income, "Gross Profit", 0), revenue),
                     "operating_margin", FundamentalValue(income, "Operating Income", 0), revenue),
                     "ebitda_margin", FundamentalValue(income, "EBITDA", 0), revenue),
                     "net_margin", FundamentalValue(income, "Net Income", 0), revenue)
            ELSE Dict
        profit_margin == DictGet(inf, "profit_margin")
        operating_margin == DictGet(inf, "operating_margin")
        fallback ==
            PutIf(PutIf(Dict, Truthy(profit_margin), "net_margin",
                        QMul(profit_margin, Num(100))),
                  Truthy(operating_margin), "operating_margin",
                  QMul(operating_margin, Num(100)))
    IN  [k |-> "dict",
         current |-> IF current = Dict THEN fallback ELSE current,
         trend |-> IF Present(income) THEN MarginTrend(income, Len(TrendPeriods)) ELSE Dict]

\* (a + b) / 2
Average(a, b) == QDiv(QAdd(a, b), Num(2))

\* a turnover and the days outstanding that follow from it, entered when the
\* balances of both periods (and `also`) are truthy
TurnoverIf(d, turnover_key, days_key, flow, balance, balance_prev, also) ==
    IF Truthy(balance) /\ Truthy(balance_prev) /\ also
    THEN LET turnover == _safe_divide(flow, Average(balance, balance_prev))
         IN  PutIf(Put(d, turnover_key, turnover),
                   Truthy(turnover), days_key, QDiv(Num(365), turnover))
    ELSE d

\* calculate_efficiency_ratios
calculate_efficiency_ratios(funds) ==
    LET income == income_stmt_a(funds)
        balance == balance_sheet_a(funds)
        revenue == FundamentalValue(income, "Total Revenue", 0)
        total_assets == FundamentalValue(balance, "Total Assets", 0)
        cogs == FundamentalValue(income, "Cost Of Revenue", 0)
        e1 == Put(Dict, "asset_turnover", _safe_divide(revenue, total_assets))
        e2 == TurnoverIf(e1, "inventory_turnover", "days_inventory_outstanding", cogs,
                         FundamentalValue(balance, "Inventory", 0),
                         FundamentalValue(balance, "Inventory", 1), TRUE)
        e3 == TurnoverIf(e2, "receivables_turnover", "days_sales_outstanding", revenue,
                         FundamentalValue(balance, "Accounts Receivable", 0),
                         FundamentalValue(balance, "Accounts Receivable", 1), TRUE)
        e4 == TurnoverIf(e3, "payables_turnover", "days_payable_outstanding", cogs,
                         FundamentalValue(balance, "Accounts Payable", 0),
                         FundamentalValue(balance, "Accounts Payable", 1), Truthy(cogs))
        dio == DictGet(e4, "days_inventory_outstanding")
        dso == DictGet(e4, "days_sales_outstanding")
        dpo == DictGet(e4, "days_payable_outstanding")
    IN  IF ~IsNone(balance) /\ ~IsNone(income)
        THEN PutIf(e4, Truthy(dio) /\ Truthy(dso) /\ Truthy(dpo),
                   "cash_conversion_cycle", QSub(QAdd(dio, dso), dpo))
        ELSE Dict

\* calculate_dupont_analysis
calculate_dupont_analysis(inf, funds) ==
    LET income == income_stmt_a(funds)
        balance == balance_sheet_a(funds)
        net_income == FundamentalValue(income, "Net Income", 0)
        revenue == FundamentalValue(income, "Total Revenue", 0)
        total_assets == FundamentalValue(balance, "Total Assets", 0)
        total_equity == FundamentalValue(balance, "Stockholders Equity", 0)
        net_margin == _safe_divide(net_income, revenue)
        asset_turnover == _safe_divide(revenue, total_assets)
        equity_multiplier == _safe_divide(total_assets, total_equity)
        roe_reported == DictGet(inf, "roe")
        d1 == PutIf(Dict, ~IsNone(net_margin), "net_margin", QMul(net_margin, Num(100)))
        d2 == PutIf(d1, ~IsNone(asset_turnover), "asset_turnover", asset_turnover)
        d3 == PutIf(d2, ~IsNone(equity_multiplier), "equity_multiplier", equity_multiplier)
        d4 == PutIf(d3, ~IsNone(net_margin) /\ ~IsNone(asset_turnover)
                          /\ ~IsNone(equity_multiplier),
                    "roe_calculated",
                    QMul(QMul(QMul(net_margin, asset_turnover), equity_multiplier), Num(100)))
    IN  IF ~IsNone(balance) /\ ~IsNone(income)
        THEN PutIf(d4, Truthy(roe_reported), "roe_reported", QMul(roe_reported, Num(100)))
        ELSE Dict

\* all([...]) over the inputs of the Z-Score: every one of them is truthy
AllTruthy(values) == \A i \in 1..Len(values) : Truthy(values[i])

\* the eight inputs of calculate_altman_z_score, in the order of its all([...])
AltmanInputs(inf, funds) ==
    LET income == income_stmt_a(funds)
        balance == balance_sheet_a(funds)
    IN  <<FundamentalValue(balance, "Current Assets", 0),
          FundamentalValue(balance, "Current Liabilities", 0),
          FundamentalValue(balance, "Total Assets", 0),
          FundamentalValue(balance, "Retained Earnings", 0),
          FundamentalValue(balance, "Total Liabilities Net Minority Interest", 0),
          FundamentalValue(income, "EBIT", 0),
          FundamentalValue(income, "Total Revenue", 0),
          DictGet(inf, "market_cap")>>

\* calculate_altman_z_score: 1.2*x1 + 1.4*x2 + 3.3*x3 + 0.6*x4 + 1.0*x5
calculate_altman_z_score(inf, funds) ==
    LET in == AltmanInputs(inf, funds)
        current_assets == in[1]
        current_liabilities == in[2]
        total_assets == in[3]
        retained_earnings == in[4]
        ebit == in[6]
        revenue == in[7]
        market_cap == in[8]
        x1 == QDiv(QSub(current_assets, current_liabilities), total_assets)
        x2 == QDiv(retained_earnings, total_assets)
        x3 == QDiv(ebit, total_assets)
        x4 == QDiv(market_cap, total_assets)
        x5 == QDiv(revenue, total_assets)
    IN  IF IsNone(balance_sheet_a(funds)) \/ IsNone(income_stmt_a(funds)) THEN None
        ELSE IF ~AllTruthy(in) THEN None
        ELSE QAdd(QAdd(QAdd(QAdd(QMul(Quot(12, 10), x1), QMul(Quot(14, 10), x2)),
                            QMul(Quot(33, 10), x3)),
                       QMul(Quot(6, 10), x4)),
                  x5)

\* one criterion of the F-Score that compares a ratio of this period with the
\* ratio of the previous one: no point when an input is missing, a
\* ZeroDivisionError when a denominator is 0.0, else a point if the ratio grew
RatioCriterion(num, den, num_prev, den_prev) ==
    IF IsNone(num) \/ IsNone(den) \/ IsNone(num_prev) \/ IsNone(den_prev) THEN 0
    ELSE IF QZero(den) \/ QZero(den_prev) THEN -1
    ELSE IF QGreater(QDiv(num, den), QDiv(num_prev, den_prev)) THEN 1
    ELSE 0

\* the reverse of criterion 5: long-term debt increased
DebtIncreased(lt_debt, lt_debt_prev) == QGreater(lt_debt, lt_debt_prev)

\* criterion 5: long-term debt decreased
DebtDecreased(lt_debt, lt_debt_prev) == QLess(lt_debt, lt_debt_prev)

\* the points of the criteria of calculate_piotroski_f_score, in the order
\* they are evaluated (criterion 7 is not evaluated); -1 stands for a
\* ZeroDivisionError raised by the criterion
PiotroskiCriteria(funds) ==
    LET income == income_stmt_a(funds)
        balance == balance_sheet_a(funds)
        cash == cash_flow_a(funds)
        net_income == FundamentalValue(income, "Net Income", 0)
        ocf == FundamentalValue(cash, "Operating Cash Flow", 0)
        net_income_prev == FundamentalValue(income, "Net Income", 1)
        total_assets == FundamentalValue(balance, "Total Assets", 0)
        total_assets_prev == FundamentalValue(balance, "Total Assets", 1)
        lt_debt == FundamentalValue(balance, "Long Term Debt", 0)
        lt_debt_prev == FundamentalValue(balance, "Long Term Debt", 1)
        revenue == FundamentalValue(income, "Total Revenue", 0)
        revenue_prev == FundamentalValue(income, "Total Revenue", 1)
    IN  <<IF Truthy(net_income) /\ QPos(net_income) THEN 1 ELSE 0,
          IF Truthy(ocf) /\ QPos(ocf) THEN 1 ELSE 0,
          RatioCriterion(net_income, total_assets, net_income_prev, total_assets_prev),
          IF Truthy(ocf) /\ Truthy(net_income) /\ QGreater(ocf, net_income) THEN 1 ELSE 0,
          IF ~IsNone(lt_debt) /\ ~IsNone(lt_debt_prev) /\ DebtDecreased(lt_debt, lt_debt_prev)
          THEN 1 ELSE 0,
          RatioCriterion(FundamentalValue(balance, "Current Assets", 0),
                         FundamentalValue(balance, "Current Liabilities", 0),
                         FundamentalValue(balance, "Current Assets", 1),
                         FundamentalValue(balance, "Current Liabilities", 1)),
          RatioCriterion(FundamentalValue(income, "Gross Profit", 0), revenue,
                         FundamentalValue(income, "Gross Profit", 1), revenue_prev),
          RatioCriterion(revenue, total_assets, revenue_prev, total_assets_prev)>>

\* calculate_piotroski_f_score
\* the variant with a ninth point for a profile that lists its shares
PiotroskiWithShares(funds) ==
    LET points == PiotroskiCriteria(funds)
        shares == Or(DictGet(info, "shares_outstanding"), DictGet(info, "sharesOutstanding"))
    IN  IF IsNone(balance_sheet_a(funds)) \/ IsNone(income_stmt_a(funds))
           \/ IsNone(cash_flow_a(funds))
        THEN None
        ELSE IF \E i \in 1..Len(points) : points[i] < 0
        THEN Raised("float division by zero")
        ELSE Num(SumSeq(points) + (IF Truthy(shares) THEN 1 ELSE 0))

calculate_piotroski_f_score(funds) ==
    LET points == PiotroskiCriteria(funds)
    IN  IF IsNone(balance_sheet_a(funds)) \/ IsNone(income_stmt_a(funds))
           \/ IsNone(cash_flow_a(funds))
        THEN None
        ELSE IF \E i \in 1..Len(points) : points[i] < 0
        THEN Raised("float division by zero")
        ELSE Num(SumSeq(points))

\* calculate_all: the sub-calculations in the order of the dict literal; an
\* exception raised by one of them ends the call
calculate_all(inf, funds) ==
    LET piotroski_f == calculate_piotroski_f_score(funds)
    IN  IF IsRaised(piotroski_f) THEN piotroski_f
        ELSE [k |-> "dict",
              growth_rates |-> calculate_growth_rates(funds),
              fcf_metrics |-> calculate_fcf_metrics(inf, funds),
              margins |-> calculate_margins(inf, funds),
              efficiency |-> calculate_efficiency_ratios(funds),
              dupont |-> calculate_dupont_analysis(inf, funds),
              quality_scores |-> [k |-> "dict",
                                  altman_z |-> calculate_altman_z_score(inf, funds),
                                  piotroski_f |-> piotroski_f]]

----------------------------------------------------------------------------
(* The fundamental engine as a state machine: one FundamentalAnalyzer, the   *)
(* data its caller built it from, and the calls the caller makes            *)

\* the cells of a line item from whole amounts
Cells(amounts) == [i \in 1..Len(amounts) |-> Num(amounts[i])]

\* the statements of a company, from the line items that vary (their cells
\* of this period and of the previous one); every other line item has the
\* figure of the reference company
IncomeOf(net_income, revenue, gross_profit, ebit) ==
    Statement(5, ("Total Revenue" :> revenue \o Cells(<<80, 16, 4>>))
                 @@ ("Net Income" :> net_income \o Cells(<<8, 2>>) \o <<NaN>>)
                 @@ ("Gross Profit" :> gross_profit \o Cells(<<30, 6, 1>>))
                 @@ ("Operating Income" :> Cells(<<24, 20, 10, 2, 1>>))
                 @@ ("EBITDA" :> Cells(<<32, 24, 12, 3, 1>>))
                 @@ ("EBIT" :> <<ebit>> \o Cells(<<20, 10, 2, 1>>))
                 @@ ("Cost Of Revenue" :> Cells(<<64, 60, 50, 10, 3>>)))

BalanceOf(total_assets, lt_debt, current_assets, current_liabilities, retained, liabilities) ==
    Statement(2, ("Total Assets" :> total_assets)
                 @@ ("Long Term Debt" :> lt_debt)
                 @@ ("Current Assets" :> current_assets)
                 @@ ("Current Liabilities" :> current_liabilities)
                 @@ ("Retained Earnings" :> <<retained, Num(40)>>)
                 @@ ("Total Liabilities Net Minority Interest" :> <<liabilities, Num(90)>>)
                 @@ ("Inventory" :> Cells(<<10, 10>>))
                 @@ ("Accounts Receivable" :> Cells(<<20, 12>>))
                 @@ ("Accounts Payable" :> Cells(<<8, 8>>))
                 @@ ("Stockholders Equity" :> Cells(<<100, 70>>)))

CashOf(ocf) ==
    Statement(4, ("Operating Cash Flow" :> ocf \o Cells(<<10, 5>>))
                 @@ ("Capital Expenditure" :> Cells(<<-4, -4, -3, -1>>)))

\* the reference company: every line item present, every criterion improving
ReferenceIncome == IncomeOf(Cells(<<16, 10>>), Cells(<<128, 100>>), Cells(<<64, 40>>), Num(24))
ReferenceBalance ==
    BalanceOf(Cells(<<200, 160>>), Cells(<<40, 50>>), Cells(<<60, 40>>), Cells(<<30, 25>>),
              Num(50), Num(100))
ReferenceCash == CashOf(Cells(<<20, 12>>))

FundamentalInfo(market_cap) ==
    [k |-> "dict", market_cap |-> market_cap, shares_outstanding |-> None,
     sharesOutstanding |-> Num(10), profit_margin |-> Quot(1, 10),
     operating_margin |-> None, roe |-> Quot(3, 20)]

Statements(income, balance, cash) ==
    LET f1 == IF IsNone(income) THEN Dict ELSE Put(Dict, "income_stmt_annual", income)
        f2 == IF IsNone(balance) THEN f1 ELSE Put(f1, "balance_sheet_annual", balance)
    IN  IF IsNone(cash) THEN f2 ELSE Put(f2, "cash_flow_annual", cash)

\* the shares outstanding of the profile: unknown, zero or a count
ShareCounts == {None, Num(0), Num(10)}

\* family P: the line items the F-Score compares, period against period
InitScoreInputs ==
    /\ \E shares \in ShareCounts :
          info = [FundamentalInfo(Num(400)) EXCEPT !.sharesOutstanding = shares]
    /\ \E net_income \in {<<Num(16), Num(10)>>, <<Num(-2), Num(-4)>>, <<Num(0), Num(-1)>>, <<NaN, Num(10)>>, <<Num(10), Num(16)>>},
          ocf \in {<<Num(20), Num(12)>>, <<Num(-3), Num(-5)>>, <<Num(0), Num(-1)>>, <<NaN, Num(12)>>, <<Num(5), Num(12)>>},
          total_assets \in {<<Num(200), Num(160)>>, <<Num(0), Num(160)>>, <<NaN, Num(160)>>, <<Num(200), Num(0)>>, <<Num(240), Num(160)>>},
          lt_debt \in {<<Num(40), Num(50)>>, <<Num(50), Num(40)>>, <<NaN, Num(50)>>, <<Num(0), Num(0)>>},
          liquidity \in {<<Num(60), Num(30), Num(40), Num(25)>>, <<Num(60), Num(0), Num(40), Num(25)>>, <<Num(60), Num(30), Num(40), NaN>>,
                         <<Num(30), Num(30), Num(40), Num(25)>>},
          sales \in {<<Num(128), Num(64), Num(100), Num(40)>>, <<Num(0), Num(0), Num(100), Num(40)>>, <<Num(128), Num(64), Num(100), NaN>>,
                     <<Num(128), Num(32), Num(100), Num(40)>>, <<Num(128), Num(64), Num(0), Num(0)>>} :
            fundamentals =
                Statements(IncomeOf(net_income, <<sales[1], sales[3]>>,
                                    <<sales[2], sales[4]>>, Num(24)),
                           BalanceOf(total_assets, lt_debt, <<liquidity[1], liquidity[3]>>,
                                     <<liquidity[2], liquidity[4]>>, Num(50), Num(100)),
                           CashOf(ocf))

\* family Z: the eight inputs of the Z-Score, each missing, zero or a figure
InitZScoreInputs ==
    \E current_assets \in {NaN, Num(0), Num(60)}, current_liabilities \in {NaN, Num(0), Num(30)},
       total_assets \in {NaN, Num(0), Num(200)}, retained \in {NaN, Num(0), Num(50), Num(-20)},
       liabilities \in {NaN, Num(0), Num(100)}, ebit \in {NaN, Num(0), Num(24), Num(-6)},
       revenue \in {NaN, Num(0), Num(128)}, market_cap \in {None, Num(0), Num(400)} :
        /\ info = FundamentalInfo(market_cap)
        /\ fundamentals =
              Statements(IncomeOf(Cells(<<16, 10>>), <<revenue, Num(100)>>, Cells(<<64, 40>>), ebit),
                         BalanceOf(<<total_assets, Num(160)>>, Cells(<<40, 50>>), <<current_assets, Num(40)>>,
                                   <<current_liabilities, Num(25)>>, retained, liabilities),
                         ReferenceCash)

\* family T: each statement absent from the dict, empty, or the reference one
InitStatementInputs ==
    /\ info = FundamentalInfo(Num(400))
    /\ \E income \in {None, EmptyStatement, ReferenceIncome},
          balance \in {None, EmptyStatement, ReferenceBalance},
          cash \in {None, EmptyStatement, ReferenceCash} :
            fundamentals = Statements(income, balance, cash)

\* both periods of a line item with the same cell
Twice(cell) == <<cell, cell>>

\* family I: statements whose period 0 repeats period 1 in every line item;
\* the figure is missing, zero or an amount
InitIdenticalInputs ==
    /\ info = FundamentalInfo(Num(400))
    /\ \E net_income \in {NaN, Num(0), Num(16)}, revenue \in {NaN, Num(0), Num(128)},
          ocf \in {NaN, Num(0), Num(20)}, capex \in {Num(0), Num(-4)},
          total_assets \in {NaN, Num(0), Num(200)},
          current_liabilities \in {NaN, Num(0), Num(30)} :
            fundamentals =
                Statements(Statement(2, ("Total Revenue" :> Twice(revenue))
                                        @@ ("Net Income" :> Twice(net_income))
                                        @@ ("Gross Profit" :> Twice(Num(64)))),
                           Statement(2, ("Total Assets" :> Twice(total_assets))
                                        @@ ("Long Term Debt" :> Twice(Num(40)))
                                        @@ ("Current Assets" :> Twice(Num(60)))
                                        @@ ("Current Liabilities" :> Twice(current_liabilities))),
                           Statement(2, ("Operating Cash Flow" :> Twice(ocf))
                                        @@ ("Capital Expenditure" :> Twice(capex))))

InitFundamental ==
    /\ price_data = None
    /\ args = None
    /\ benchmark_data = None
    /\ risk_free = 0
    /\ fetches = 0
    /\ dividends_data = None
    /\ earnings_data = NoEarnings
    /\ now = 0
    /\ op = "init"
    /\ result = None
    /\ \/ InitScoreInputs
       \/ InitZScoreInputs
       \/ InitStatementInputs
       \/ InitIdenticalInputs

GrowthRates == Return("calculate_growth_rates", calculate_growth_rates(fundamentals), 0)

FcfMetrics == Return("calculate_fcf_metrics", calculate_fcf_metrics(info, fundamentals), 0)

Margins == Return("calculate_margins", calculate_margins(info, fundamentals), 0)

EfficiencyRatios ==
    Return("calculate_efficiency_ratios", calculate_efficiency_ratios(fundamentals), 0)

DupontAnalysis ==
    Return("calculate_dupont_analysis", calculate_dupont_analysis(info, fundamentals), 0)

AltmanZScore ==
    Return("calculate_altman_z_score", calculate_altman_z_score(info, fundamentals), 0)

PiotroskiFScore ==
    Return("calculate_piotroski_f_score", calculate_piotroski_f_score(fundamentals), 0)

CalculateAll == Return("calculate_all", calculate_all(info, fundamentals), 0)

NextFundamental ==
    \/ GrowthRates
    \/ FcfMetrics
    \/ Margins
    \/ EfficiencyRatios
    \/ DupontAnalysis
    \/ AltmanZScore
    \/ PiotroskiFScore
    \/ CalculateAll
    \/ Consume

SpecFundamental == InitFundamental /\ [][NextFundamental]_vars

----------------------------------------------------------------------------
(* Claims about the fundamental engine *)

CalculateAllKeys ==
    {"growth_rates", "fcf_metrics", "margins", "efficiency", "dupont", "quality_scores"}

\* C7: calculate_all never raises for statement tables whose line items are
\* each present, absent or zero; growth_rates, fcf_metrics, margins,
\* efficiency, dupont and quality_scores are all returned.
C7_CalculateAllNeverRaises ==
    op = "calculate_all" =>
        /\ result.k = "dict"
        /\ Keys(result) = CalculateAllKeys

\* the Z-Score inputs of the data held that are missing
MissingZInputs ==
    LET in == AltmanInputs(info, fundamentals)
    IN  {i \in 1..Len(in) : IsNone(in[i])}

\* C8: calculate_altman_z_score returns None if any one of its 8 required
\* inputs is missing, and a number (never None) whenever all 8 are present,
\* whatever their values.
C8_AltmanNoneIffInputMissing ==
    op = "calculate_altman_z_score" =>
        /\ MissingZInputs # {} => result = None
        /\ MissingZInputs = {} => IsNum(result)

\* the annual statements that are absent from the data held
AbsentStatements ==
    {name \in {"income_stmt_annual", "balance_sheet_annual", "cash_flow_annual"} :
        IsNone(DictGet(fundamentals, name))}

\* C9: calculate_piotroski_f_score returns None only when all three annual
\* statement tables are absent; when at least one of them is present it
\* returns an integer score.
C9_PiotroskiNoneOnlyWithoutStatements ==
    op = "calculate_piotroski_f_score" =>
        /\ result = None => Cardinality(AbsentStatements) = 3
        /\ Cardinality(AbsentStatements) < 3 => (IsNum(result) /\ result.d = 1)

\* the figures of the two periods that the F-Score compares
Item(statement, row_name, col_index) ==
    FundamentalValue(DictGet(fundamentals, statement), row_name, col_index)

\* a figure is there in both periods and is larger in this one
Improves(statement, row_name) ==
    /\ ~IsNone(Item(statement, row_name, 0))
    /\ ~IsNone(Item(statement, row_name, 1))
    /\ QGreater(Item(statement, row_name, 0), Item(statement, row_name, 1))

\* a ratio is defined in both periods and is larger in this one
RatioImproves(s1, numerator, s2, denominator) ==
    /\ \A col \in {0, 1} :
          /\ ~IsNone(Item(s1, numerator, col))
          /\ ~IsNone(Item(s2, denominator, col))
          /\ ~QZero(Item(s2, denominator, col))
    /\ QGreater(QDiv(Item(s1, numerator, 0), Item(s2, denominator, 0)),
                QDiv(Item(s1, numerator, 1), Item(s2, denominator, 1)))

\* net income, operating cash flow, ROA and gross margin improve from period
\* 1 to period 0, and long-term debt decreases
AllImprove ==
    /\ AbsentStatements = {}
    /\ Improves("income_stmt_annual", "Net Income")
    /\ Improves("cash_flow_annual", "Operating Cash Flow")
    /\ RatioImproves("income_stmt_annual", "Net Income", "balance_sheet_annual", "Total Assets")
    /\ RatioImproves("income_stmt_annual", "Gross Profit", "income_stmt_annual", "Total Revenue")
    /\ ~IsNone(Item("balance_sheet_annual", "Long Term Debt", 0))
    /\ ~IsNone(Item("balance_sheet_annual", "Long Term Debt", 1))
    /\ QLess(Item("balance_sheet_annual", "Long Term Debt", 0),
             Item("balance_sheet_annual", "Long Term Debt", 1))

----------------------------------------------------------------------------
(* Claims about growth rates and the year-over-year criteria *)

AnnualStatements == {"income_stmt_annual", "balance_sheet_annual", "cash_flow_annual"}

\* every line item of the three annual statements has the same cell in
\* period 0 and in period 1
IdenticalPeriods ==
    /\ AbsentStatements = {}
    /\ \A name \in AnnualStatements :
          LET df == DictGet(fundamentals, name)
          IN  /\ df.ncols >= 2
              /\ DOMAIN df.rows # {}
              /\ \A row_name \in DOMAIN df.rows : df.rows[row_name][1] = df.rows[row_name][2]

\* the criteria of the F-Score that compare this period with the previous
\* one: ROA, long-term debt, current ratio, gross margin, asset turnover
YearOverYear == {3, 5, 6, 7, 8}

\* C11: when every line item of the statement tables has identical period-0
\* and period-1 values, every 1-year growth rate of calculate_growth_rates
\* (revenue, earnings, FCF) is 0, and calculate_piotroski_f_score gives a
\* score to which none of the year-over-year criteria contributes a point.
C11_IdenticalPeriodsNoGrowth ==
    IdenticalPeriods =>
        /\ op = "calculate_growth_rates" =>
              /\ result.revenue["1y"] = Num(0)
              /\ result.earnings["1y"] = Num(0)
              /\ result.fcf["1y"] = Num(0)
        /\ op = "calculate_piotroski_f_score" =>
              /\ IsNum(result)
              /\ \A i \in YearOverYear : PiotroskiCriteria(fundamentals)[i] = 0

----------------------------------------------------------------------------
(* Claims about drawdown and returns *)

\* a table of closes in which no close is below the one before it
Increasing(df) ==
    /\ validate_dataframe(df, {"Close"})
    /\ \A i \in 1..(Len(df.rows) - 1) : df.rows[i] <= df.rows[i + 1]

StrictlyIncreasing(df) ==
    /\ validate_dataframe(df, {"Close"})
    /\ \A i \in 1..(Len(df.rows) - 1) : df.rows[i] < df.rows[i + 1]

\* C12: for every monotonically increasing close series calculate_drawdown
\* returns max_drawdown = 0.0, current_drawdown = 0.0, is_recovered = True
\* and days_since_peak = 0.
C12_IncreasingSeriesHasNoDrawdown ==
    (op = "calculate_drawdown" /\ Increasing(price_data)) =>
        /\ result.k = "dict"
        /\ result.max_drawdown = FZero
        /\ result.current_drawdown = FZero
        /\ result.is_recovered = TRUE
        /\ result.days_since_peak = 0

\* a drawdown was computed for three strictly rising closes
C12_Witness ==
    /\ op = "calculate_drawdown"
    /\ StrictlyIncreasing(price_data)
    /\ Len(price_data.rows) >= 3
    /\ result.k = "dict"
    /\ result.max_drawdown = FZero
    /\ result.days_since_peak = 0


\* a table of at least three closes that was generated with one daily
\* return: every row is the row before it times 1 + r
ConstantReturn(df) ==
    /\ validate_dataframe(df, {"Close"})
    /\ Len(df.rows) >= 3
    /\ \A i \in 2..(Len(df.rows) - 1) :
          df.rows[i + 1] * df.rows[i - 1] = df.rows[i] * df.rows[i]

\* 1 + r of such a table
OnePlusReturn(df) == Quot(df.rows[2], df.rows[1])

\* what calculate_all_metrics reports for such a table, with the cumulative
\* return of `periods` compounding steps
ConstantReturnReport(periods) ==
    /\ result.k = "dict"
    /\ result.returns.k = "dict"
    /\ result.returns.cumulative_return = QSub(QPow(OnePlusReturn(price_data), periods), Num(1))
    /\ result.returns.daily_std = FZero
    /\ result.sharpe_ratio = FZero

----------------------------------------------------------------------------
(* Claims about the dividend helpers *)

\* the gaps between consecutive payments of the caller's series, in days
PaymentIntervals ==
    LET d == Dates(dividends_data)
    IN  [i \in 1..(Len(d) - 1) |-> d[i + 1] - d[i]]

\* m is the median of the gaps in whole days: the middle gap, or the mean
\* of the two middle gaps rounded down
IsMedianOf(m, gaps) ==
    LET below == Cardinality({i \in DOMAIN gaps : gaps[i] < m})
        above == Cardinality({i \in DOMAIN gaps : gaps[i] > m})
    IN  IF Len(gaps) % 2 = 1
        THEN (\E i \in DOMAIN gaps : gaps[i] = m) /\ 2 * below < Len(gaps) /\ 2 * above < Len(gaps)
        ELSE \E i, j \in DOMAIN gaps :
                /\ i # j
                /\ gaps[i] <= gaps[j]
                /\ m = (gaps[i] + gaps[j]) \div 2
                /\ Cardinality({l \in DOMAIN gaps \ {i, j} : gaps[l] <= gaps[i]})
                       >= Len(gaps) \div 2 - 1
                /\ Cardinality({l \in DOMAIN gaps \ {i, j} : gaps[l] >= gaps[j]})
                       >= Len(gaps) \div 2 - 1

\* the class the thresholds assign to a median gap of m days
FrequencyClass(m) ==
    IF m > 300 THEN "annual"
    ELSE IF m > 150 THEN "semi-annual"
    ELSE IF m > 60 THEN "quarterly"
    ELSE IF m > 20 THEN "monthly"
    ELSE "irregular"

----------------------------------------------------------------------------
(* The three CAGR helpers, called on their own *)

\* ending value, beginning value and number of periods of a call
CagrValues == {None, Num(-4), Num(0), Num(1), Num(4), Num(16)}
CagrPeriods == {-1, 0, 1, 2}

CagrCall(ending_value, beginning_value, num_periods) ==
    [k |-> "args", ending_value |-> ending_value, beginning_value |-> beginning_value,
     num_periods |-> num_periods]

InitCagr ==
    /\ price_data = None
    /\ benchmark_data = None
    /\ risk_free = 0
    /\ fetches = 0
    /\ info = NoInfo
    /\ fundamentals = NoInfo
    /\ dividends_data = None
    /\ earnings_data = NoInfo
    /\ now = 0
    /\ args \in {CagrCall(e, b, p) : e \in CagrValues, b \in CagrValues, p \in CagrPeriods}
    /\ op = "init"
    /\ result = None

UtilsCagr ==
    Return("calculate_cagr",
           calculate_cagr(args.ending_value, args.beginning_value, args.num_periods), 0)

ValuationCagr ==
    Return("ValuationAnalyzer._calculate_cagr",
           _calculate_cagr(args.ending_value, args.beginning_value, args.num_periods), 0)

FundamentalCagrCall ==
    Return("FundamentalAnalyzer._calculate_cagr",
           FundamentalCagr(args.ending_value, args.beginning_value, args.num_periods), 0)

NextCagr ==
    \/ UtilsCagr
    \/ ValuationCagr
    \/ FundamentalCagrCall
    \/ Consume

SpecCagr == InitCagr /\ [][NextCagr]_vars

CagrHelpers ==
    {"calculate_cagr", "ValuationAnalyzer._calculate_cagr", "FundamentalAnalyzer._calculate_cagr"}

\* an operand is missing, the beginning value is not positive, or the number
\* of periods is not positive
CagrUndefined ==
    \/ IsNone(args.ending_value)
    \/ IsNone(args.beginning_value)
    \/ QLeq(args.beginning_value, FZero)
    \/ args.num_periods <= 0

\* ((ending / beginning) ^ (1 / periods) - 1) * 100 for a ratio that has an
\* exact root
ExactCagr ==
    LET q == QDiv(args.ending_value, args.beginning_value)
    IN  QMul(QSub(IF args.num_periods = 1 THEN q ELSE QRoot(q, args.num_periods), Num(1)),
             Num(100))

\* C15: every CAGR helper returns None (not 0.0 or another number) whenever
\* the beginning value is <= 0, the number of periods is <= 0 or either
\* operand is missing, and otherwise ((ending/beginning)^(1/periods) - 1)*100,
\* which is 0 when ending = beginning.
C15_CagrNoneWhenUndefined ==
    op \in CagrHelpers =>
        /\ CagrUndefined => result = None
        /\ (~CagrUndefined /\ QGeq(args.ending_value, FZero)) => result = ExactCagr
        /\ (~CagrUndefined /\ args.ending_value = args.beginning_value) => result = FZero

----------------------------------------------------------------------------
(* Claims about the engines as a whole *)

\* the tables a caller hands to the engines
CallerTables == <<price_data, fundamentals, earnings_data, dividends_data>>

\* C16: no engine call mutates its inputs: when analyze (analyze_earnings
\* included) returns, the caller's price table, statement tables, earnings
\* tables (values and index) and dividend series are what they were before
\* the call.
C16_CallsLeaveInputsAlone == [][CallerTables' = CallerTables]_vars


\* the parametric VaR of the caller's price table at a confidence level, for
\* each z-score the random sample can give
ParametricVars(conf) ==
    {calculate_var(price_data, conf, z).var_parametric : z \in ZSamples}

\* C17: every public entry point is deterministic: two calls of calculate_var
\* (and of calculate_all_metrics) on the same series return the same
\* var_parametric, so the value returned is the only one the series allows.
C17_ParametricVarIsDeterministic ==
    /\ (op = "calculate_var" /\ result.k = "dict") =>
          ParametricVars(result.confidence_level) = {result.var_parametric}
    /\ (op = "calculate_all_metrics" /\ result.k = "dict") =>
          /\ result.var_95.k = "dict" => ParametricVars(Conf95) = {result.var_95.var_parametric}
          /\ result.var_99.k = "dict" => ParametricVars(Conf99) = {result.var_99.var_parametric}

----------------------------------------------------------------------------
(* Claims about the valuation models' figures *)

\* the Free Cash Flow figures of the three most recent periods that are not
\* missing, newest first
FcfFigures ==
    SelectSeq([i \in 1..3 |-> _get_value(cash_flow_a(fundamentals), "Free Cash Flow", i - 1)],
              NotNone)

\* the CAGR of the FCF can be computed: two figures or more, the oldest positive
FcfCagrComputable == Len(FcfFigures) >= 2 /\ QPos(FcfFigures[Len(FcfFigures)])

\* ((newest / oldest) ^ (1 / periods) - 1) * 100
FcfCagr ==
    LET n == Len(FcfFigures)
        q == QDiv(FcfFigures[1], FcfFigures[n])
    IN  QMul(QSub(IF n = 2 THEN q ELSE QRoot(q, n - 1), Num(1)), Num(100))

\* the DCF got as far as choosing its growth rate
GrowthChosen ==
    /\ op = "calculate_dcf_valuation"
    /\ result.k = "dict"
    /\ ~IsNone(result.growth_rate_used)

GrowthSource == DictGet(result.assumptions, "growth_rate_source")

\* C18: calculate_dcf_valuation chooses growth_rate_used by ordered fallback:
\* the caller's value; else the FCF CAGR whenever it is computable (a CAGR of
\* 0 included); else the default 5.0. assumptions.growth_rate_source records
\* which of the three paths was taken, so a rate marked as historical is the
\* FCF CAGR and never the default.
C18_GrowthFallbackRecordsItsPath ==
    (GrowthChosen /\ GrowthSource # Str("user_provided")) =>
        /\ FcfCagrComputable =>
              /\ result.growth_rate_used = FcfCagr
              /\ GrowthSource = Str("historical_fcf")
        /\ ~FcfCagrComputable =>
              /\ result.growth_rate_used = Num(5)
              /\ GrowthSource # Str("historical_fcf")


\* a valuation model reported a discount / premium
PremiumReported ==
    /\ op \in {"calculate_dcf_valuation", "calculate_ddm_valuation"}
    /\ result.k = "dict"
    /\ ~IsNone(result.discount_premium_pct)

\* C19: whenever DCF or DDM reports discount_premium_pct, it equals
\* (current_price - intrinsic) / intrinsic * 100 and is negative exactly when
\* the current price is below the intrinsic value (undervalued), for every
\* intrinsic value that is reached, the negative one of a company whose net
\* debt exceeds its enterprise value included.
C19_NegativePremiumMeansUndervalued ==
    PremiumReported =>
        /\ result.discount_premium_pct =
              QMul(QDiv(QSub(result.current_price, result.intrinsic_value_per_share),
                        result.intrinsic_value_per_share), Num(100))
        /\ result.discount_premium_pct.n < 0
              <=> QLess(result.current_price, result.intrinsic_value_per_share)


\* the series is a payment history: no payment is dated after now
PaymentHistory ==
    /\ dividends_data.k = "series"
    /\ \A i \in DOMAIN dividends_data.rows : dividends_data.rows[i].date <= now

\* the sum of the payments of the trailing year before now
TrailingYearSum ==
    LET paid == SelectSeq(dividends_data.rows,
                          LAMBDA r : now - YearDays < r.date /\ r.date <= now)
    IN  SumSeq([i \in 1..Len(paid) |-> paid[i].amount])

\* the number of payments that stand for a year, by payment frequency
PaymentsPerYear(frequency) ==
    IF frequency = "annual" THEN 1
    ELSE IF frequency = "semi-annual" THEN 2
    ELSE IF frequency = "quarterly" THEN 4
    ELSE IF frequency = "monthly" THEN 12
    ELSE Min2(4, Len(dividends_data.rows))

\* the sum of the last k payments (of all of them if there are fewer)
LastPaymentsSum(k) ==
    LET a == Amounts(dividends_data)
    IN  SumSeq([i \in 1..Min2(k, Len(a)) |-> a[Len(a) - i + 1]])

----------------------------------------------------------------------------
(* Claims about the dividend analysis *)

\* analyze_dividends found a dividend payer and scored it
DividendsScored ==
    /\ op = "analyze_dividends"
    /\ result.k = "dict"
    /\ result.pays_dividends = Bool(TRUE)

\* the points of a figure that is at most / at least the first step it meets;
\* steps are <<limit, points>> pairs in the order they are tried
RECURSIVE PointsAtMost(_, _)
PointsAtMost(v, steps) ==
    IF steps = <<>> THEN 0
    ELSE IF QLeq(v, Num(Head(steps)[1])) THEN Head(steps)[2]
    ELSE PointsAtMost(v, Tail(steps))

RECURSIVE PointsAtLeast(_, _)
PointsAtLeast(v, steps) ==
    IF steps = <<>> THEN 0
    ELSE IF QGeq(v, Num(Head(steps)[1])) THEN Head(steps)[2]
    ELSE PointsAtLeast(v, Tail(steps))

PayoutComponent ==
    IF IsNone(result.payout_ratio) THEN 0
    ELSE PointsAtMost(result.payout_ratio, <<<<50, 40>>, <<70, 30>>, <<90, 15>>, <<100, 5>>>>)

GrowthComponent ==
    IF IsNone(result.dividend_growth_rate) THEN 0
    ELSE PointsAtLeast(result.dividend_growth_rate, <<<<10, 30>>, <<5, 20>>, <<0, 10>>>>)

ConsistencyComponent ==
    IF IsNone(result.consecutive_years) THEN 0
    ELSE PointsAtLeast(result.consecutive_years, <<<<10, 30>>, <<5, 20>>, <<3, 10>>, <<1, 5>>>>)

RatingBand(score) ==
    IF QGeq(score, Num(80)) THEN Str("Excellent")
    ELSE IF QGeq(score, Num(60)) THEN Str("Good")
    ELSE IF QGeq(score, Num(40)) THEN Str("Fair")
    ELSE IF QGeq(score, Num(20)) THEN Str("Poor")
    ELSE Str("High Risk")

Unsustainable == Str("Payout ratio > 100% - dividends exceed earnings (unsustainable)")
LimitedRoom == Str("High payout ratio (>80%) - limited room for growth")
CutRisk == Str("Low dividend coverage (<1.5x) - risk of dividend cut")

\* the payout ratio of the profile, when analyze_dividends found a payer with
\* a positive payout ratio
PayoutAnalyzed == DividendsScored /\ ~IsNone(_get_info_value(info, "payoutRatio"))

Warned(w) == \E i \in DOMAIN result.warnings : result.warnings[i] = w

----------------------------------------------------------------------------
(* Claims about the earnings analysis *)

EarningsAnalyzed == op = "analyze_earnings" /\ result.k = "dict"

\* the trend of a one-year EPS growth
TrendOf(growth) ==
    IF QGreater(growth, Num(10)) THEN Str("Strong Growth")
    ELSE IF QGreater(growth, FZero) THEN Str("Moderate Growth")
    ELSE IF QGreater(growth, Num(-10)) THEN Str("Slight Decline")
    ELSE Str("Declining")

\* C23: whenever analyze_earnings computes eps_growth_1y (it is not None),
\* trend is set by: growth > 10 Strong Growth, growth > 0 Moderate Growth,
\* growth > -10 Slight Decline, otherwise Declining; trend is None only when
\* the one-year growth could not be computed.
C23_TrendFollowsGrowth ==
    EarningsAnalyzed =>
        /\ ~IsNone(result.eps_growth_1y) => result.trend = TrendOf(result.eps_growth_1y)
        /\ IsNone(result.trend) => IsNone(result.eps_growth_1y)

----------------------------------------------------------------------------
(* calculate_rolling_ratios, called with window sizes of the caller's choice *)

\* the lists of window sizes a caller asks for
WindowLists == {<<2>>, <<3>>, <<4>>, <<2, 3>>, <<3, 2>>, <<2, 4>>, <<2, 3, 4>>}

InitRolling ==
    /\ price_data \in PriceTables
    /\ benchmark_data = None
    /\ risk_free \in RiskFreeLevels
    /\ fetches = 0
    /\ info = NoInfo
    /\ fundamentals = NoInfo
    /\ dividends_data = None
    /\ earnings_data = NoInfo
    /\ now = 0
    /\ args \in {[k |-> "args", windows |-> w] : w \in WindowLists}
    /\ op = "init"
    /\ result = None

RollingRatios ==
    Return("calculate_rolling_ratios",
           calculate_rolling_ratios(price_data, args.windows, risk_free), 0)

NextRolling ==
    \/ RollingRatios
    \/ Consume

SpecRolling == InitRolling /\ [][NextRolling]_vars

\* the number of daily returns of the caller's price table
ReturnCount ==
    IF validate_dataframe(price_data, {"Close"}) THEN Len(price_data.rows) - 1 ELSE 0

\* the keys of the result dict, as <<ratio, window>>
ReportedKeys == IF result.k = "dict" THEN DOMAIN result.items ELSE {}

\* the excess returns vary, so that every rolling Sharpe ratio is a number
ReturnsVary ==
    /\ ReturnCount >= 2
    /\ \A i \in 1..(ReturnCount - 1) :
          pct_change(price_data)[i].r # pct_change(price_data)[i + 1].r

\* C24: calculate_rolling_ratios handles each requested window on its own:
\* for every window whose size does not exceed the number of daily returns
\* it reports the rolling Sharpe statistics, and only the windows that are
\* longer than the series are skipped.
C24_WindowsHandledIndependently ==
    (op = "calculate_rolling_ratios" /\ ReturnsVary) =>
        \A i \in DOMAIN args.windows :
            <<"sharpe", args.windows[i]>> \in ReportedKeys <=> args.windows[i] <= ReturnCount

----------------------------------------------------------------------------
\* calculate_drawdown returned its report
DrawdownReported == op = "calculate_drawdown" /\ result.k = "dict"

\* the highest close of the first i rows
PeakAt(i) ==
    CHOOSE p \in {price_data.rows[j] : j \in 1..i} :
        \A j \in 1..i : price_data.rows[j] <= p

\* the row of the reported max-drawdown date
MaxDrawdownRow == result.max_drawdown_date - price_data.first + 1

\* the rows on or after the max-drawdown date whose close reaches the peak
\* that preceded the drawdown
RecoveryRows ==
    {j \in MaxDrawdownRow..Len(price_data.rows) :
        price_data.rows[j] >= PeakAt(MaxDrawdownRow)}

\* the date of row j
DateOfRow(j) == price_data.first + j - 1

\* the number of consecutive trailing rows whose close is below the running peak
TrailingRowsBelowPeak ==
    LET last == Len(price_data.rows)
        below(n) == \A j \in (last - n + 1)..last : price_data.rows[j] < PeakAt(j)
    IN  CHOOSE n \in 0..last : below(n) /\ (n < last => ~below(n + 1))

----------------------------------------------------------------------------
\* calculate_efficiency_ratios returned
EfficiencyReported == op = "calculate_efficiency_ratios" /\ result.k = "dict"

\* a line item of the annual balance sheet / income statement of the caller
BalanceItem(row_name, col_index) ==
    FundamentalValue(balance_sheet_a(fundamentals), row_name, col_index)

IncomeItem(row_name) == FundamentalValue(income_stmt_a(fundamentals), row_name, 0)

ZeroOrMissing(v) == IsNone(v) \/ (IsNum(v) /\ QZero(v))

\* the average of the two latest periods of a balance-sheet item
AverageItem(row_name) ==
    IF IsNone(BalanceItem(row_name, 0)) \/ IsNone(BalanceItem(row_name, 1)) THEN None
    ELSE Average(BalanceItem(row_name, 0), BalanceItem(row_name, 1))

\* flow / average balance, the denominator of a days-outstanding figure
TurnoverOf(flow, row_name) ==
    IF IsNone(flow) \/ ZeroOrMissing(AverageItem(row_name)) THEN None
    ELSE QDiv(flow, AverageItem(row_name))

\* the denominator of each ratio
DenominatorOf(key) ==
    CASE key = "asset_turnover" -> BalanceItem("Total Assets", 0)
      [] key = "inventory_turnover" -> AverageItem("Inventory")
      [] key = "receivables_turnover" -> AverageItem("Accounts Receivable")
      [] key = "payables_turnover" -> AverageItem("Accounts Payable")
      [] key = "days_inventory_outstanding" ->
            TurnoverOf(IncomeItem("Cost Of Revenue"), "Inventory")
      [] key = "days_sales_outstanding" ->
            TurnoverOf(IncomeItem("Total Revenue"), "Accounts Receivable")
      [] key = "days_payable_outstanding" ->
            TurnoverOf(IncomeItem("Cost Of Revenue"), "Accounts Payable")

DividedRatios ==
    {"asset_turnover", "inventory_turnover", "receivables_turnover", "payables_turnover",
     "days_inventory_outstanding", "days_sales_outstanding", "days_payable_outstanding"}

----------------------------------------------------------------------------
\* calculate_growth_rates returned
GrowthReported == op = "calculate_growth_rates" /\ result.k = "dict"

\* the k-year CAGR of a line item: period 0 against the period k columns
\* earlier, annualized over k years
CagrOverYears(df, row_name, years) ==
    FundamentalCagr(FundamentalValue(df, row_name, 0),
                    FundamentalValue(df, row_name, years), years)

\* free cash flow of a period: operating cash flow + capital expenditure when
\* both are present
FreeCashFlowOf(df, col_index) ==
    LET ocf == FundamentalValue(df, "Operating Cash Flow", col_index)
        capex == FundamentalValue(df, "Capital Expenditure", col_index)
    IN  IF IsNone(ocf) \/ IsNone(capex) THEN None ELSE QAdd(ocf, capex)

FcfCagrOverYears(df, years) ==
    FundamentalCagr(FreeCashFlowOf(df, 0), FreeCashFlowOf(df, years), years)

\* the 3-year and 5-year CAGR of a line item are reported as computed
ReportsCagr(growth, df, row_name) ==
    \A years \in {3, 5} :
        LET key == IF years = 3 THEN "3y_cagr" ELSE "5y_cagr"
        IN  /\ key \in DOMAIN growth
            /\ growth[key] = CagrOverYears(df, row_name, years)

\* C27: for each of revenue, net income and FCF, calculate_growth_rates
\* reports a 3-year and a 5-year CAGR computed from the period-0 value and the
\* value exactly k periods earlier with exponent 1/k; FCF of a period is
\* operating cash flow + capital expenditure whenever both are present.
C27_CagrOverExactPeriods ==
    GrowthReported =>
        /\ Present(income_stmt_a(fundamentals)) =>
              /\ ReportsCagr(result.revenue, income_stmt_a(fundamentals), "Total Revenue")
              /\ ReportsCagr(result.earnings, income_stmt_a(fundamentals), "Net Income")
        /\ Present(cash_flow_a(fundamentals)) =>
              /\ result.fcf["current"] = FreeCashFlowOf(cash_flow_a(fundamentals), 0)
              /\ {"3y_cagr", "5y_cagr"} \subseteq DOMAIN result.fcf
              /\ result.fcf["3y_cagr"] = FcfCagrOverYears(cash_flow_a(fundamentals), 3)
              /\ result.fcf["5y_cagr"] = FcfCagrOverYears(cash_flow_a(fundamentals), 5)

----------------------------------------------------------------------------
\* calculate_piotroski_f_score returned a score
ScoreReturned == op = "calculate_piotroski_f_score" /\ result.k = "num"

\* the shares outstanding the profile holds
ProfileShares ==
    Or(DictGet(info, "shares_outstanding"), DictGet(info, "sharesOutstanding"))

\* the points of the eight implemented criteria
CriteriaPoints == PiotroskiCriteria(fundamentals)

----------------------------------------------------------------------------
\* calculate_dcf_valuation returned its result
DcfReturned == op = "calculate_dcf_valuation" /\ result.k = "dict"

\* C29: in every result of calculate_dcf_valuation, error is None if and only
\* if intrinsic_value_per_share is not None: never both an intrinsic value
\* and an error, never neither.
C29_ErrorIffNoIntrinsicValue ==
    /\ op = "calculate_dcf_valuation" => result.k = "dict"
    /\ DcfReturned =>
          (IsNone(result.error) <=> ~IsNone(result.intrinsic_value_per_share))

----------------------------------------------------------------------------
\* the caller's fundamentals with another income-statement table (None: the
\* key is absent)
WithIncomeStatement(income) ==
    IF IsNone(income)
    THEN [key \in DOMAIN fundamentals \ {"income_stmt_annual"} |-> fundamentals[key]]
    ELSE Put(fundamentals, "income_stmt_annual", income)

\* the income-statement table present, absent or empty
IncomeVariants == {None, EmptyStatement, IncomeTypical}

\* the DCF result of the caller's inputs with another income-statement table
DcfWithIncome(income, a) ==
    calculate_dcf_valuation(info, WithIncomeStatement(income), price_data,
                            a[1], a[2], a[3], a[4])

\* C30: the DCF result does not depend on the income-statement table: with
\* income_stmt_annual present, absent or empty, and everything else the same,
\* calculate_dcf_valuation returns the same result.
C30_DcfIgnoresIncomeStatement ==
    op = "calculate_dcf_valuation" =>
        \A a \in DcfArguments :
            result = calculate_dcf_valuation(info, fundamentals, price_data,
                                             a[1], a[2], a[3], a[4])
            => \A income \in IncomeVariants : DcfWithIncome(income, a) = result

====
